---- MODULE Spec2Model ----
(***************************************************************************)
(* A model of the crm-analytics scripts: the RFM pipelines of              *)
(* rfm_analytics.py and flo_rfm.py, and the CLV-mode aggregation of        *)
(* clv_prediction.py and flo_clv.py.                                       *)
(*                                                                         *)
(* Strings are sequences of one-character strings, so that astype(str),    *)
(* string concatenation and the regular-expression replacement of          *)
(* Series.replace(seg_map, regex=True) are computed and not assumed.       *)
(* Quantiles are computed exactly (linear interpolation, as pandas does by *)
(* default) on integers scaled by the number of bins; the floating-point   *)
(* rounding of numpy is not modelled.                                      *)
(***************************************************************************)
EXTENDS Integers, Sequences, FiniteSets, TLC

VARIABLES
    prog,   \* which script or function runs
    pc,     \* the statement group the run has reached
    df,     \* the caller's table object (changed only by in-place statements)
    dataframe, \* the table the name dataframe (in a script: df) is bound to
    rfm,    \* the per-customer table under construction (rfm, clv_df)
    out,    \* what the run returned or wrote (None before, and on failure)
    calls,  \* the calls made to the two estimators, with their arguments
    clv,    \* the Series customer_lifetime_value returned (None before)
    arg,    \* the argument of a pure function under test
    res     \* its result

vars == <<prog, pc, df, dataframe, rfm, out, calls, clv, arg, res>>

None == "None"

(***************************************************************************)
(* Generic helpers.                                                        *)
(***************************************************************************)
Range(s) == {s[i] : i \in 1..Len(s)}

SeqsUpTo(S, lo, hi) == UNION {[1..n -> S] : n \in lo..hi}

Max2(a, b) == IF a >= b THEN a ELSE b

(***************************************************************************)
(* Regular expressions of the segment map.  A pattern is a sequence of     *)
(* character classes; every pattern of seg_map has two of them.            *)
(***************************************************************************)
C12 == {"1", "2"}
C34 == {"3", "4"}
C45 == {"4", "5"}
C23 == {"2", "3"}

\* the pattern matches at the start of s
MatchAt(pat, s) ==
    /\ Len(s) >= Len(pat)
    /\ \A i \in 1..Len(pat) : s[i] \in pat[i]

\* re.search(pat, s) is not None
re_search(pat, s) ==
    \E k \in 0..(Len(s) - Len(pat)) :
        \A i \in 1..Len(pat) : s[k + i] \in pat[i]

RECURSIVE re_sub(_, _, _)
\* re.sub(pat, repl, s): leftmost non-overlapping matches are replaced
re_sub(pat, repl, s) ==
    IF Len(s) < Len(pat) THEN s
    ELSE IF MatchAt(pat, s)
         THEN repl \o re_sub(pat, repl, SubSeq(s, Len(pat) + 1, Len(s)))
         ELSE <<Head(s)>> \o re_sub(pat, repl, Tail(s))

hibernating == <<"h","i","b","e","r","n","a","t","i","n","g">>
at_risk == <<"a","t","_","r","i","s","k">>
at_Risk == <<"a","t","_","R","i","s","k">>
cant_loose == <<"c","a","n","t","_","l","o","o","s","e">>
about_to_sleep == <<"a","b","o","u","t","_","t","o","_","s","l","e","e","p">>
need_attention == <<"n","e","e","d","_","a","t","t","e","n","t","i","o","n">>
loyal_customers == <<"l","o","y","a","l","_","c","u","s","t","o","m","e","r","s">>
promising == <<"p","r","o","m","i","s","i","n","g">>
new_customers == <<"n","e","w","_","c","u","s","t","o","m","e","r","s">>
potential_loyalists ==
    <<"p","o","t","e","n","t","i","a","l","_","l","o","y","a","l","i","s","t","s">>
champions == <<"c","h","a","m","p","i","o","n","s">>

\* The programs: the statements at module level ("script") and the function
\* each file defines.
RfmScript == "rfm_analytics.script"
RfmFunc == "rfm_analytics.create_rfm"
FloScript == "flo_rfm.script"
FloFunc == "flo_rfm.create_rfm"

\* the label of the [1-2][3-4] rule: only rfm_analytics.create_rfm spells it
\* in lower case
AtRiskLabel(p) == IF p = RfmFunc THEN at_risk ELSE at_Risk

seg_map_wide(p) ==
    << [pat |-> <<C12, C12>>, label |-> hibernating],
       [pat |-> <<C12, C34>>, label |-> AtRiskLabel(p)],
       [pat |-> <<C12, {"5"}>>, label |-> cant_loose],
       [pat |-> <<{"3"}, C12>>, label |-> about_to_sleep],
       [pat |-> <<{"3"}, {"3"}>>, label |-> need_attention],
       [pat |-> <<C34, {"3", "4", "5"}>>, label |-> loyal_customers],
       [pat |-> <<{"4"}, {"1"}>>, label |-> promising],
       [pat |-> <<{"5"}, {"1"}>>, label |-> new_customers],
       [pat |-> <<C45, C23>>, label |-> potential_loyalists],
       [pat |-> <<{"5"}, C45>>, label |-> champions] >>

\* seg_map, in the insertion order of the dict
seg_map(p) ==
    << [pat |-> <<C12, C12>>, label |-> hibernating],
       [pat |-> <<C12, C34>>, label |-> AtRiskLabel(p)],
       [pat |-> <<C12, {"5"}>>, label |-> cant_loose],
       [pat |-> <<{"3"}, C12>>, label |-> about_to_sleep],
       [pat |-> <<{"3"}, {"3"}>>, label |-> need_attention],
       [pat |-> <<C34, C45>>, label |-> loyal_customers],
       [pat |-> <<{"4"}, {"1"}>>, label |-> promising],
       [pat |-> <<{"5"}, {"1"}>>, label |-> new_customers],
       [pat |-> <<C45, C23>>, label |-> potential_loyalists],
       [pat |-> <<{"5"}, C45>>, label |-> champions] >>

RECURSIVE replace_list(_, _, _, _)
\* Series.replace(seg_map, regex=True) on one element: the rules are taken in
\* order; a rule acts on the element when its pattern is found in the
\* ORIGINAL value (the masks are computed before any replacement), and then
\* substitutes every match in the current value.
replace_list(rules, i, orig, cur) ==
    IF i > Len(rules) THEN cur
    ELSE replace_list(rules, i + 1, orig,
            IF re_search(rules[i].pat, orig)
            THEN re_sub(rules[i].pat, rules[i].label, cur)
            ELSE cur)

replace_regex(p, s) == replace_list(seg_map(p), 1, s, s)

\* the rules whose pattern is found in s
MatchingRules(p, s) ==
    {i \in 1..Len(seg_map(p)) : re_search(seg_map(p)[i].pat, s)}

(***************************************************************************)
(* The segment classifier as a pure function: a score string is drawn,     *)
(* and the replacement is applied to it.                                   *)
(***************************************************************************)
MaxKeyLen == 3

Alphabet == {"0", "1", "2", "3", "4", "5", "6", "n", "a"}

Digits15 == {"1", "2", "3", "4", "5"}

InitSeg ==
    /\ prog \in {RfmScript, RfmFunc, FloScript, FloFunc}
    /\ pc = "classify"
    /\ arg \in SeqsUpTo(Alphabet, 2, MaxKeyLen)
    /\ res = None
    /\ df = <<>>
    /\ dataframe = <<>>
    /\ rfm = <<>>
    /\ out = None
    /\ calls = <<>>
    /\ clv = None

Classify ==
    /\ pc = "classify"
    /\ res' = [segment |-> replace_regex(prog, arg),
               matched |-> MatchingRules(prog, arg)]
    /\ pc' = "classified"
    /\ UNCHANGED <<prog, df, dataframe, rfm, out, calls, clv, arg>>

NextSeg == Classify

SpecSeg == InitSeg /\ [][NextSeg]_vars

\* C1: every 2-digit score string with both digits in 1..5 (all 25 of
\* them) is matched by exactly one of the ten rules of the segment map.
C1_ExactlyOneRule ==
    (pc = "classified" /\ Len(arg) = 2 /\ Range(arg) \subseteq Digits15)
        => Cardinality(res.matched) = 1

C1_Witness ==
    /\ pc = "classified"
    /\ arg = <<"3", "3">>
    /\ res.matched = {5}
    /\ res.segment = need_attention

(***************************************************************************)
(* The quantile scorer.  A cell of a numeric column is <<v>> for the       *)
(* number v and <<>> for a missing value (NaN / NaT).                      *)
(***************************************************************************)
NaN == <<>>

IsNa(x) == x = <<>>

Num(v) == <<v>>

Val(x) == x[1]

\* the non-missing values of a column, in table order
RECURSIVE DropNa(_)
DropNa(col) ==
    IF col = <<>> THEN <<>>
    ELSE IF IsNa(Head(col)) THEN DropNa(Tail(col))
         ELSE <<Val(Head(col))>> \o DropNa(Tail(col))

RECURSIVE Insert(_, _)
Insert(x, sorted) ==
    IF sorted = <<>> THEN <<x>>
    ELSE IF x <= Head(sorted) THEN <<x>> \o sorted
         ELSE <<Head(sorted)>> \o Insert(x, Tail(sorted))

RECURSIVE SortAsc(_)
SortAsc(s) == IF s = <<>> THEN <<>> ELSE Insert(Head(s), SortAsc(Tail(s)))

\* Series.quantile(i / q) of the sorted values v, times q: linear
\* interpolation between the two order statistics around (n - 1) * i / q
QuantileTimes(v, i, q) ==
    LET pos == (Len(v) - 1) * i
        f == pos \div q
        r == pos % q
    IN  IF r = 0 THEN q * v[f + 1]
        ELSE q * v[f + 1] + r * (v[f + 2] - v[f + 1])

\* the q + 1 bin edges of qcut, times q
BinEdges(col, q) ==
    LET v == SortAsc(DropNa(col))
    IN  [i \in 1..(q + 1) |-> QuantileTimes(v, i - 1, q)]

EdgesUnique(e) == \A i, j \in 1..Len(e) : i # j => e[i] # e[j]

\* the outcome of a call that may raise: the value, or the exception
Ok(v) == [raised |-> FALSE, value |-> v]

ValueError == [raised |-> TRUE, value |-> <<>>]

qcut_drop_duplicates(col, q, labels) ==
    IF DropNa(col) = <<>> THEN ValueError
    ELSE LET e == BinEdges(col, q)
             u == {e[i] : i \in 1..Len(e)}
             id(x) == Max2(1, Cardinality({b \in u : b < q * Val(x)}))
         IN  Ok([i \in 1..Len(col) |->
                IF IsNa(col[i]) THEN NaN ELSE Num(labels[id(col[i])])])

\* pd.qcut(col, q, labels=labels): duplicates="raise" is the default, so
\* edges that are not all different raise ValueError; otherwise a value
\* falls in bin searchsorted(edges, x, side="left"), the lowest edge
\* included in bin 1, and a missing value stays missing.
qcut(col, q, labels) ==
    IF DropNa(col) = <<>> \/ ~EdgesUnique(BinEdges(col, q)) THEN ValueError
    ELSE LET e == BinEdges(col, q)
             id(x) == Max2(1, Cardinality({i \in 1..Len(e) : e[i] < q * Val(x)}))
         IN  Ok([i \in 1..Len(col) |->
                IF IsNa(col[i]) THEN NaN ELSE Num(labels[id(col[i])])])

rank_min(col) ==
    [i \in 1..Len(col) |->
        IF IsNa(col[i]) THEN NaN
        ELSE Num(1 + Cardinality({j \in 1..Len(col) :
                    ~IsNa(col[j]) /\ Val(col[j]) < Val(col[i])}))]

\* a rank that puts the later of two equal values first
rank_last(col) ==
    [i \in 1..Len(col) |->
        IF IsNa(col[i]) THEN NaN
        ELSE Num(1 + Cardinality({j \in 1..Len(col) :
                    /\ ~IsNa(col[j])
                    /\ \/ Val(col[j]) < Val(col[i])
                       \/ (Val(col[j]) = Val(col[i]) /\ j > i)}))]

\* Series.rank(method="first"): equal values are ranked in the order they
\* appear in the table; a missing value has no rank
rank_first(col) ==
    [i \in 1..Len(col) |->
        IF IsNa(col[i]) THEN NaN
        ELSE Num(1 + Cardinality({j \in 1..Len(col) :
                    /\ ~IsNa(col[j])
                    /\ \/ Val(col[j]) < Val(col[i])
                       \/ (Val(col[j]) = Val(col[i]) /\ j < i)}))]

NumBins == 5

recency_labels_ascending == <<1, 2, 3, 4, 5>>

\* labels=[5, 4, 3, 2, 1] of the recency score
recency_labels == <<5, 4, 3, 2, 1>>

\* labels=[1, 2, 3, 4, 5] of the frequency and monetary scores
value_labels == <<1, 2, 3, 4, 5>>

recency_score(col) == qcut(col, NumBins, recency_labels)

frequency_score_last(col) == qcut(rank_last(col), NumBins, value_labels)

frequency_score(col) == qcut(rank_first(col), NumBins, value_labels)

monetary_score(col) == qcut(col, NumBins, value_labels)

(***************************************************************************)
(* The scorer as a pure function: a column is drawn and scored in one of   *)
(* the three ways the pipelines score.                                     *)
(***************************************************************************)
MaxLen == 6

ScoreVals == 1..4

InitScore ==
    /\ prog = "scorer"
    /\ pc = "score"
    /\ \E v \in SeqsUpTo(ScoreVals, 1, MaxLen) :
           arg = [i \in 1..Len(v) |-> Num(v[i])]
    /\ res = None
    /\ df = <<>>
    /\ dataframe = <<>>
    /\ rfm = <<>>
    /\ out = None
    /\ calls = <<>>
    /\ clv = None

ScoreRecency ==
    /\ pc = "score"
    /\ res' = [kind |-> "recency", score |-> recency_score(arg)]
    /\ pc' = "scored"
    /\ UNCHANGED <<prog, df, dataframe, rfm, out, calls, clv, arg>>

ScoreFrequency ==
    /\ pc = "score"
    /\ res' = [kind |-> "frequency", score |-> frequency_score(arg)]
    /\ pc' = "scored"
    /\ UNCHANGED <<prog, df, dataframe, rfm, out, calls, clv, arg>>

ScoreMonetary ==
    /\ pc = "score"
    /\ res' = [kind |-> "monetary", score |-> monetary_score(arg)]
    /\ pc' = "scored"
    /\ UNCHANGED <<prog, df, dataframe, rfm, out, calls, clv, arg>>

NextScore == ScoreRecency \/ ScoreFrequency \/ ScoreMonetary

SpecScore == InitScore /\ [][NextScore]_vars

Scored(kind) == pc = "scored" /\ res.kind = kind /\ ~res.score.raised

MinOf(col) == CHOOSE i \in 1..Len(col) : \A j \in 1..Len(col) : Val(col[i]) <= Val(col[j])

\* C4: quantile scoring preserves order, with opposite label directions:
\* a customer with a smaller or equal recency never has a lower recency
\* score, a customer with a smaller frequency never has a higher frequency
\* score, a customer with a smaller or equal monetary never has a higher
\* monetary score; the lowest recency bin is labelled 5 and the lowest
\* frequency and monetary bins are labelled 1.
C4_OrderPreserving ==
    /\ Scored("recency") =>
          /\ \A a, b \in 1..Len(arg) :
                Val(arg[a]) <= Val(arg[b]) => Val(res.score.value[a]) >= Val(res.score.value[b])
          /\ Val(res.score.value[MinOf(arg)]) = 5
    /\ Scored("frequency") =>
          /\ \A a, b \in 1..Len(arg) :
                Val(arg[a]) < Val(arg[b]) => Val(res.score.value[a]) <= Val(res.score.value[b])
          /\ Val(res.score.value[MinOf(arg)]) = 1
    /\ Scored("monetary") =>
          /\ \A a, b \in 1..Len(arg) :
                Val(arg[a]) <= Val(arg[b]) => Val(res.score.value[a]) <= Val(res.score.value[b])
          /\ Val(res.score.value[MinOf(arg)]) = 1

C4_Witness ==
    /\ Scored("recency")
    /\ Len(arg) >= 5
    /\ \E a, b \in 1..Len(arg) :
          /\ Val(arg[a]) < Val(arg[b])
          /\ Val(res.score.value[a]) = 5
          /\ Val(res.score.value[b]) = 1

BinSize(score, l) == Cardinality({i \in 1..Len(score) : score[i] = Num(l)})

\* C6: the frequency score ranks the values first, so for every population
\* of at least five customers, however many frequencies are equal, the
\* scoring succeeds, each of the labels 1..5 is used, and the sizes of two
\* frequency bins differ by at most one.
C6_FrequencyBinsBalanced ==
    (pc = "scored" /\ res.kind = "frequency" /\ Len(arg) >= 5) =>
        /\ ~res.score.raised
        /\ \A l \in 1..5 : BinSize(res.score.value, l) >= 1
        /\ \A l, m \in 1..5 :
              BinSize(res.score.value, l) - BinSize(res.score.value, m) <= 1

C6_Witness ==
    /\ Scored("frequency")
    /\ Len(arg) = 6
    /\ \A i \in 1..Len(arg) : arg[i] = Num(1)
    /\ BinSize(res.score.value, 1) = 2

(***************************************************************************)
(* Time.  A timestamp is a number of time units, UnitsPerDay of them to    *)
(* the day, so that Timedelta.days (whole days, rounded down) is computed. *)
(* Money is counted in units of 0.50.                                      *)
(***************************************************************************)
UnitsPerDay == 2

\* Timedelta.days
days(td) == td \div UnitsPerDay

days_rounded_up(td) == (td + UnitsPerDay - 1) \div UnitsPerDay

RECURSIVE SumSeq(_)
SumSeq(s) == IF s = <<>> THEN 0 ELSE Head(s) + SumSeq(Tail(s))

RECURSIVE MaxSeq(_)
MaxSeq(s) == IF Len(s) = 1 THEN s[1] ELSE Max2(Head(s), MaxSeq(Tail(s)))

RECURSIVE Flatten(_)
Flatten(ss) == IF ss = <<>> THEN <<>> ELSE Head(ss) \o Flatten(Tail(ss))

\* the elements of a finite set of integers, ascending (groupby sorts keys)
SortedKeys(S) == SortAsc(CHOOSE q \in [1..Cardinality(S) -> S] : Range(q) = S)

Column(t, name) == [i \in 1..Len(t) |-> t[i][name]]

(***************************************************************************)
(* rfm_analytics.py: the transaction table.                                *)
(***************************************************************************)
\* the analysis date, in days since 2010-12-01
today_date(p) == (IF p = RfmScript THEN 10 ELSE 375) * UnitsPerDay

Row(inv, c, q, price, date) ==
    [Invoice |-> inv, CustomerID |-> c, Quantity |-> q, Price |-> price,
     InvoiceDate |-> date]

\* The rows one customer contributes to the input table, t the analysis
\* date: the kinds of purchase history the scripts meet in the data set.
TxProfiles == 1..7

TxProfile(k, c, t) ==
    CASE k = 1 -> \* three invoices, the last one two days before t
            << Row(<<"1">>, Num(c), 2, 10, t - 42 * UnitsPerDay),
               Row(<<"2">>, Num(c), 1, 6, t - 32 * UnitsPerDay),
               Row(<<"3">>, Num(c), 4, 5, t - 2 * UnitsPerDay) >>
      [] k = 2 -> \* one purchase, not at midnight
            << Row(<<"4">>, Num(c), 1, 6, t - 5 * UnitsPerDay + 1) >>
      [] k = 3 -> \* one invoice of two lines, and its cancellation
            << Row(<<"5">>, Num(c), 1, 10, t - 20 * UnitsPerDay),
               Row(<<"5">>, Num(c), 2, 6, t - 20 * UnitsPerDay),
               Row(<<"C", "5">>, Num(c), 0 - 1, 10, t - UnitsPerDay) >>
      [] k = 4 -> \* an invoice id with a C that is not its first character
            << Row(<<"6">>, Num(c), 3, 5, t - 9 * UnitsPerDay),
               Row(<<"7", "C">>, Num(c), 1, 6, t - 3 * UnitsPerDay) >>
      [] k = 5 -> \* a negative quantity on an invoice that is no cancellation
            << Row(<<"8">>, Num(c), 4, 5, t - 7 * UnitsPerDay),
               Row(<<"9">>, Num(c), 0 - 1, 5, t - 6 * UnitsPerDay) >>
      [] k = 6 -> \* a line without customer id beside a purchase
            << Row(<<"1", "0">>, NaN, 5, 5, t - UnitsPerDay),
               Row(<<"1", "1">>, Num(c), 1, 10, t - 12 * UnitsPerDay) >>
      [] k = 7 -> \* nothing but a return, on an invoice that is no cancellation
            << Row(<<"1", "2">>, Num(c), 0 - 2, 5, t - 8 * UnitsPerDay) >>
      [] k = 10 -> \* a purchase outweighed by a later return, on an invoice
                   \* that is no cancellation
            << Row(<<"2", "0">>, Num(c), 2, 5, t - 15 * UnitsPerDay),
               Row(<<"2", "1">>, Num(c), 0 - 3, 5, t - 4 * UnitsPerDay) >>

MaxCust == 4

\* the tables of n customers; customer n comes first
TxTable(choice, t) ==
    Flatten([i \in 1..Len(choice) |->
                TxProfile(choice[i], Len(choice) + 1 - i, t)])

\* dataframe["TotalPrice"] = dataframe["Quantity"] * dataframe["Price"]
WithTotalPrice(t) ==
    [i \in 1..Len(t) |-> [TotalPrice |-> t[i].Quantity * t[i].Price] @@ t[i]]

HasNa(r) == IsNa(r.CustomerID)

\* dataframe.dropna()
dropna(t) == SelectSeq(t, LAMBDA r : ~HasNa(r))

str_startswith(s, ch) == Len(s) >= 1 /\ s[1] = ch

\* Series.str.contains("C"): the character occurs anywhere in the string
str_contains(s, ch) == \E i \in 1..Len(s) : s[i] = ch

\* dataframe[~dataframe["Invoice"].str.contains("C", na=False)]
drop_cancellations(t) == SelectSeq(t, LAMBDA r : ~str_contains(r.Invoice, "C"))

RowsOf(t, c) == SelectSeq(t, LAMBDA r : r.CustomerID = Num(c))

CustomerIds(t) == {Val(t[i].CustomerID) : i \in {j \in 1..Len(t) : ~HasNa(t[j])}}

agg_recency_first(p, rows) ==
    days(today_date(p) - rows[1].InvoiceDate)

\* lambda date: (today_date - date.max()).days
agg_recency(p, rows) ==
    days(today_date(p) - MaxSeq(Column(rows, "InvoiceDate")))

agg_frequency_count(rows) == Len(rows)

\* lambda num: num.nunique()
agg_frequency(rows) == Cardinality(Range(Column(rows, "Invoice")))

\* lambda price: price.sum()
agg_monetary(rows) == SumSeq(Column(rows, "TotalPrice"))

\* dataframe.groupby('Customer ID').agg({...}), the three columns renamed
\* recency, frequency, monetary; the groups come in ascending key order
groupby_agg(p, t) ==
    LET ids == SortedKeys(CustomerIds(t))
    IN  [i \in 1..Len(ids) |->
            LET rows == RowsOf(t, ids[i])
            IN  [customer_id |-> ids[i],
                 recency |-> Num(agg_recency(p, rows)),
                 frequency |-> Num(agg_frequency(rows)),
                 monetary |-> Num(agg_monetary(rows))]]

\* rfm[rfm["monetary"] > 0]
positive_monetary(t) == SelectSeq(t, LAMBDA r : Val(r.monetary) > 0)

(***************************************************************************)
(* flo_rfm.py: the customer table, one row per customer.                   *)
(***************************************************************************)
\* analysis_date = dt.datetime(2021, 6, 1), in days since 2021-05-01
analysis_date == 31 * UnitsPerDay

KADIN == <<"K","A","D","I","N">>
ERKEK == <<"E","R","K","E","K">>
COCUK == <<"C","O","C","U","K">>
AKTIFCOCUK == <<"A","K","T","I","F","C","O","C","U","K">>
AKTIFSPOR == <<"A","K","T","I","F","S","P","O","R">>

\* the text of a category list, as the csv file has it: [A, B]
RECURSIVE JoinCats(_)
JoinCats(cs) ==
    IF cs = <<>> THEN <<>>
    ELSE IF Len(cs) = 1 THEN cs[1]
         ELSE cs[1] \o <<",", " ">> \o JoinCats(Tail(cs))

CatText(cs) == <<"[">> \o JoinCats(cs) \o <<"]">>

FloRow(c, first, last, n_on, n_off, v_off, v_on, cats) ==
    [master_id |-> c, first_order_date |-> first, last_order_date |-> last,
     order_num_total_ever_online |-> n_on,
     order_num_total_ever_offline |-> n_off,
     customer_value_total_ever_offline |-> v_off,
     customer_value_total_ever_online |-> v_on,
     interested_in_categories_12 |-> CatText(cats)]

FloProfiles == 1..6

FloProfile(k, c, t) ==
    CASE k = 1 -> FloRow(c, Num(t - 100 * UnitsPerDay), Num(t - 2 * UnitsPerDay),
                         2, 1, 10, 30, <<KADIN>>)
      [] k = 2 -> FloRow(c, Num(t - 10 * UnitsPerDay), Num(t - 10 * UnitsPerDay),
                         1, 1, 5, 7, <<ERKEK, KADIN>>)
      [] k = 3 -> FloRow(c, Num(t - 90 * UnitsPerDay), Num(t - 30 * UnitsPerDay),
                         3, 2, 20, 40, <<AKTIFCOCUK>>)
      [] k = 4 -> \* no last order date in the file
                  FloRow(c, Num(t - 50 * UnitsPerDay), NaN,
                         1, 1, 5, 5, <<COCUK>>)
      [] k = 5 -> FloRow(c, Num(t - 200 * UnitsPerDay), Num(t - 60 * UnitsPerDay),
                         1, 3, 50, 8, <<AKTIFSPOR>>)
      [] k = 6 -> FloRow(c, Num(t - 20 * UnitsPerDay), Num(t - 2 * UnitsPerDay),
                         2, 1, 9, 9, <<>>)

FloTable(choice, t) ==
    [i \in 1..Len(choice) |-> FloProfile(choice[i], Len(choice) + 1 - i, t)]

IsFlo(p) == p \in {FloScript, FloFunc}

\* the two total columns; the date columns are already timestamps here
\* (pd.to_datetime keeps a missing date missing)
flo_prep_value_only(t) ==
    [i \in 1..Len(t) |->
        [order_num_total |-> t[i].order_num_total_ever_online
                              + t[i].order_num_total_ever_offline,
         customer_value_total |-> t[i].customer_value_total_ever_online] @@ t[i]]

flo_prep(t) ==
    [i \in 1..Len(t) |->
        [order_num_total |-> t[i].order_num_total_ever_online
                              + t[i].order_num_total_ever_offline,
         customer_value_total |-> t[i].customer_value_total_ever_offline
                                   + t[i].customer_value_total_ever_online] @@ t[i]]

\* rfm["recency"] = (analysis_date - dataframe["last_order_date"]).dt.days ...
flo_metrics(t) ==
    [i \in 1..Len(t) |->
        [customer_id |-> t[i].master_id,
         recency |-> IF IsNa(t[i].last_order_date) THEN NaN
                     ELSE Num(days(analysis_date - Val(t[i].last_order_date))),
         frequency |-> Num(t[i].order_num_total),
         monetary |-> Num(t[i].customer_value_total)]]

(***************************************************************************)
(* The RFM pipelines, statement group by statement group.                  *)
(***************************************************************************)
RfmProgs == {RfmScript, RfmFunc, FloScript, FloFunc}

\* the rarer purchase histories join the tables of few customers only
RareTxProfiles == TxProfiles \cup {10}

MaxRareCust == 2

InputTables(p) ==
    IF IsFlo(p)
    THEN {FloTable(ch, analysis_date) : ch \in SeqsUpTo(FloProfiles, 1, MaxCust)}
    ELSE {TxTable(ch, today_date(p)) : ch \in SeqsUpTo(TxProfiles, 1, MaxCust)}
         \cup {TxTable(ch, today_date(p)) : ch \in SeqsUpTo(RareTxProfiles, 1, MaxRareCust)}

InitRFM ==
    /\ prog \in RfmProgs
    /\ pc = "prepare"
    /\ df \in InputTables(prog)
    /\ dataframe = df
    /\ rfm = <<>>
    /\ out = None
    /\ calls = <<>>
    /\ clv = None
    /\ arg = None
    /\ res = None

\* rfm_analytics: TotalPrice and dropna act on the table in place; the
\* cancellation filter binds the name to a new table (in the script the
\* name is df itself).  flo_rfm: the columns are added in place.
Prepare ==
    /\ prog \in RfmProgs
    /\ pc = "prepare"
    /\ IF IsFlo(prog)
       THEN /\ df' = flo_prep(df)
            /\ dataframe' = df'
       ELSE /\ dataframe' = drop_cancellations(dropna(WithTotalPrice(df)))
            /\ df' = IF prog = RfmScript THEN dataframe'
                     ELSE dropna(WithTotalPrice(df))
    /\ pc' = "metrics"
    /\ UNCHANGED <<prog, rfm, out, calls, clv, arg, res>>

Metrics ==
    /\ pc = "metrics"
    /\ rfm' = IF IsFlo(prog) THEN flo_metrics(dataframe)
              ELSE positive_monetary(groupby_agg(prog, dataframe))
    /\ pc' = "recency_score"
    /\ UNCHANGED <<prog, df, dataframe, out, calls, clv, arg, res>>

\* rfm[name] = values
AddColumn(t, name, values) ==
    [i \in 1..Len(t) |-> t[i] @@ (name :> values[i])]

\* one scoring statement: the column is added, or the exception of qcut
\* ends the run
ScoreStep(here, name, result, next) ==
    /\ pc = here
    /\ IF result.raised
       THEN /\ pc' = "failed"
            /\ rfm' = rfm
       ELSE /\ pc' = next
            /\ rfm' = AddColumn(rfm, name, result.value)
    /\ UNCHANGED <<prog, df, dataframe, out, calls, clv, arg, res>>

RecencyScore ==
    ScoreStep("recency_score", "recency_score",
              recency_score(Column(rfm, "recency")), "frequency_score")

FrequencyScore ==
    ScoreStep("frequency_score", "frequency_score",
              frequency_score(Column(rfm, "frequency")), "monetary_score")

MonetaryScore ==
    ScoreStep("monetary_score", "monetary_score",
              monetary_score(Column(rfm, "monetary")), "rf_score")

DigitChars == <<"1", "2", "3", "4", "5">>

\* astype(str) of a score: the digit, and "nan" for a missing score
astype_str(x) == IF IsNa(x) THEN <<"n", "a", "n">> ELSE <<DigitChars[Val(x)]>>

rf_key_monetary(r) == astype_str(r.recency_score) \o astype_str(r.monetary_score)

rf_key_reversed(r) == astype_str(r.frequency_score) \o astype_str(r.recency_score)

\* rfm['recency_score'].astype(str) + rfm['frequency_score'].astype(str)
rf_key(r) == astype_str(r.recency_score) \o astype_str(r.frequency_score)

rfm_key(r) == rf_key(r) \o astype_str(r.monetary_score)

\* the column the segment is looked up from: rfm_analytics calls its
\* two-character key RFM_SCORE, flo_rfm calls it RF_SCORE and keeps the
\* three-character key in RFM_SCORE
KeyColumn(p) == IF IsFlo(p) THEN "RF_SCORE" ELSE "RFM_SCORE"

ScoreKeys ==
    /\ pc = "rf_score"
    /\ rfm' = IF IsFlo(prog)
              THEN [i \in 1..Len(rfm) |-> rfm[i] @@
                        [RF_SCORE |-> rf_key(rfm[i]), RFM_SCORE |-> rfm_key(rfm[i])]]
              ELSE [i \in 1..Len(rfm) |-> rfm[i] @@ [RFM_SCORE |-> rf_key(rfm[i])]]
    /\ pc' = "segment"
    /\ UNCHANGED <<prog, df, dataframe, out, calls, clv, arg, res>>

\* rfm['segment'] = rfm[key].replace(seg_map, regex=True)
Segment ==
    /\ pc = "segment"
    /\ rfm' = [i \in 1..Len(rfm) |-> rfm[i] @@
                  [segment |-> replace_regex(prog, rfm[i][KeyColumn(prog)])]]
    /\ pc' = "export"
    /\ UNCHANGED <<prog, df, dataframe, out, calls, clv, arg, res>>

Select(t, cols) == [i \in 1..Len(t) |-> [c \in cols |-> t[i][c]]]

\* str.contains(sub) on a text: sub occurs somewhere in it
str_contains_text(s, sub) ==
    \E k \in 0..(Len(s) - Len(sub)) : \A i \in 1..Len(sub) : s[k + i] = sub[i]

\* a selection by segment alone
target_ids_any_category(t, r, segments, words) ==
    LET ids == {r[i].customer_id : i \in {j \in 1..Len(r) : r[j].segment \in segments}}
    IN  Column(SelectSeq(t, LAMBDA x : x.master_id \in ids), "master_id")

\* the master_ids of df whose customer is in one of the segments and whose
\* category text contains one of the words
target_ids(t, r, segments, words) ==
    LET ids == {r[i].customer_id : i \in {j \in 1..Len(r) : r[j].segment \in segments}}
        hit == SelectSeq(t, LAMBDA x :
                  /\ x.master_id \in ids
                  /\ \E w \in words : str_contains_text(x.interested_in_categories_12, w))
    IN  Column(hit, "master_id")

\* an export that does not wait for the segmentation
ExportEarly ==
    /\ pc = "segment"
    /\ out' = [returned |-> None, files |-> [rfm_csv |-> rfm]]
    /\ pc' = "done"
    /\ UNCHANGED <<prog, df, dataframe, rfm, calls, clv, arg, res>>

\* what the run hands back: the table the function returns and the files
\* it writes
Export ==
    /\ pc = "export"
    /\ out' =
         CASE prog = RfmFunc ->
                LET t == Select(rfm, {"customer_id", "recency", "frequency",
                                      "monetary", "segment"})
                IN  [returned |-> t, files |-> [rfm_csv |-> t]]
           [] prog = RfmScript ->
                [returned |-> None,
                 files |-> [rfm_csv |-> rfm,
                            new_customers_csv |->
                                Column(SelectSeq(rfm, LAMBDA r : r.segment = new_customers),
                                       "customer_id")]]
           [] prog = FloFunc ->
                [returned |-> Select(rfm, {"customer_id", "recency", "frequency",
                                           "monetary", "RF_SCORE", "RFM_SCORE",
                                           "segment"}),
                 files |-> <<>>]
           [] prog = FloScript ->
                [returned |-> None,
                 files |-> [new_brand_target_ids_csv |->
                                target_ids(df, rfm, {champions, loyal_customers},
                                           {KADIN}),
                            discount_target_customer_ids_csv |->
                                target_ids(df, rfm,
                                           {cant_loose, hibernating, new_customers},
                                           {ERKEK, COCUK})]]
    /\ pc' = "done"
    /\ UNCHANGED <<prog, df, dataframe, rfm, calls, clv, arg, res>>

NextRFM ==
    \/ Prepare
    \/ Metrics
    \/ RecencyScore
    \/ FrequencyScore
    \/ MonetaryScore
    \/ ScoreKeys
    \/ Segment
    \/ Export

SpecRFM == InitRFM /\ [][NextRFM]_vars

HasColumn(t, name) == t # <<>> /\ name \in DOMAIN t[1]

Segmented == pc \in {"export", "done"}

\* the ten segment names of the rule table
SegmentNames ==
    {hibernating, at_risk, cant_loose, about_to_sleep, need_attention,
     loyal_customers, promising, new_customers, potential_loyalists, champions}

\* the label the rule table gives a two-digit recency-frequency score
TableLabel(s) ==
    CASE s[1] \in C12 /\ s[2] \in C12 -> hibernating
      [] s[1] \in C12 /\ s[2] \in C34 -> at_risk
      [] s[1] \in C12 /\ s[2] = "5" -> cant_loose
      [] s[1] = "3" /\ s[2] \in C12 -> about_to_sleep
      [] s[1] = "3" /\ s[2] = "3" -> need_attention
      [] s[1] \in C34 /\ s[2] \in C45 -> loyal_customers
      [] s[1] = "4" /\ s[2] = "1" -> promising
      [] s[1] = "5" /\ s[2] = "1" -> new_customers
      [] s[1] \in C45 /\ s[2] \in C23 -> potential_loyalists
      [] s[1] = "5" /\ s[2] \in C45 -> champions
      [] OTHER -> <<>>

TwoDigitKey(s) == Len(s) = 2 /\ Range(s) \subseteq Digits15

\* C2: in each of the four RFM pipelines every customer of the output has
\* one segment label, it is the label the rule table gives the customer's
\* recency-frequency score ("13" gives at_risk), and it is one of the ten
\* segment names.
C2_SegmentFromTable ==
    Segmented =>
        \A i \in 1..Len(rfm) :
            /\ rfm[i].segment \in SegmentNames
            /\ TwoDigitKey(rfm[i][KeyColumn(prog)])
            /\ rfm[i].segment = TableLabel(rfm[i][KeyColumn(prog)])

\* C3: a score string that no rule matches ends the classification in a
\* failure: once the segment column exists, no customer has a score string
\* that no rule matches (such a customer would carry the score string as
\* the segment, or no label).
C3_UnmatchedScoreFails ==
    HasColumn(rfm, "segment") =>
        \A i \in 1..Len(rfm) : MatchingRules(prog, rfm[i][KeyColumn(prog)]) # {}

\* the number of different bin edges qcut forms for a column
DistinctEdges(col) ==
    IF DropNa(col) = <<>> THEN 0
    ELSE Cardinality(Range(BinEdges(col, NumBins)))

AfterRecencyScore == pc \notin {"prepare", "metrics", "recency_score"}

AfterMonetaryScore ==
    AfterRecencyScore /\ pc \notin {"frequency_score", "monetary_score"}

ScoreColumns == {"recency_score", "frequency_score", "monetary_score"}

\* C7: after scoring every customer's three scores are in 1..5, the RF key
\* is the recency digit followed by the frequency digit (two characters),
\* the RFM key of flo_rfm has the monetary digit as its third character,
\* and the segment is looked up from the two-character key.
C7_ScoresAndKeys ==
    /\ AfterMonetaryScore /\ pc # "failed" =>
          \A i \in 1..Len(rfm) : \A c \in ScoreColumns :
              ~IsNa(rfm[i][c]) /\ Val(rfm[i][c]) \in 1..5
    /\ HasColumn(rfm, KeyColumn(prog)) =>
          \A i \in 1..Len(rfm) :
              LET k == rfm[i][KeyColumn(prog)]
              IN  /\ Len(k) = 2
                  /\ k[1] = DigitChars[Val(rfm[i].recency_score)]
                  /\ k[2] = DigitChars[Val(rfm[i].frequency_score)]
    /\ (IsFlo(prog) /\ HasColumn(rfm, "RFM_SCORE")) =>
          \A i \in 1..Len(rfm) :
              /\ Len(rfm[i].RFM_SCORE) = 3
              /\ SubSeq(rfm[i].RFM_SCORE, 1, 2) = rfm[i].RF_SCORE
              /\ rfm[i].RFM_SCORE[3] = DigitChars[Val(rfm[i].monetary_score)]
    /\ HasColumn(rfm, "segment") =>
          \A i \in 1..Len(rfm) :
              rfm[i].segment = replace_regex(prog, rfm[i][KeyColumn(prog)])

IsTx(p) == p \in {RfmScript, RfmFunc}

\* the rows of customer c among the rows handed to groupby
CleanRows(c) == {i \in 1..Len(dataframe) : dataframe[i].CustomerID = Num(c)}

\* the sum of quantity x price over the rows I of the table t
RECURSIVE SpendOver(_, _)
SpendOver(t, I) ==
    IF I = {} THEN 0
    ELSE LET i == CHOOSE x \in I : TRUE
         IN  t[i].Quantity * t[i].Price + SpendOver(t, I \ {i})

\* the three rows of the worked example: 2 x 5.00, 1 x 3.00 and 4 x 2.50
\* on three invoices, 42, 32 and 2 days before the analysis date
ExampleRows(c) ==
    /\ Cardinality(CleanRows(c)) = 3
    /\ \E i, j, k \in CleanRows(c) :
          /\ Cardinality({dataframe[i].Invoice, dataframe[j].Invoice,
                          dataframe[k].Invoice}) = 3
          /\ dataframe[i].Quantity = 2 /\ dataframe[i].Price = 10
          /\ dataframe[i].InvoiceDate = today_date(prog) - 42 * UnitsPerDay
          /\ dataframe[j].Quantity = 1 /\ dataframe[j].Price = 6
          /\ dataframe[j].InvoiceDate = today_date(prog) - 32 * UnitsPerDay
          /\ dataframe[k].Quantity = 4 /\ dataframe[k].Price = 5
          /\ dataframe[k].InvoiceDate = today_date(prog) - 2 * UnitsPerDay

\* the time from the latest of customer c's rows to the analysis date
GapOf(c) ==
    LET I == CleanRows(c)
        last == CHOOSE i \in I : \A j \in I :
                    dataframe[i].InvoiceDate >= dataframe[j].InvoiceDate
    IN  today_date(prog) - dataframe[last].InvoiceDate

Rat(n, d) == [n |-> n, d |-> d]

RatInt(n) == Rat(n, 1)

RatEq(a, b) == a.n * b.d = b.n * a.d

RatLess(a, b) == a.n * b.d < b.n * a.d

RatLeq(a, b) == a.n * b.d <= b.n * a.d

RatAdd(a, b) == Rat(a.n * b.d + b.n * a.d, a.d * b.d)

RatMul(a, b) == Rat(a.n * b.n, a.d * b.d)

\* a / k for an integer k > 0
RatDivInt(a, k) == Rat(a.n, a.d * k)

RECURSIVE RatSum(_)
RatSum(s) == IF s = <<>> THEN RatInt(0) ELSE RatAdd(Head(s), RatSum(Tail(s)))

\* round(x, 0) of a float: to the nearest integer, a tie to the even one
round_half_even(a) ==
    LET q == a.n \div a.d
        r == a.n % a.d
    IN  IF 2 * r < a.d THEN q
        ELSE IF 2 * r > a.d THEN q + 1
             ELSE IF q % 2 = 0 THEN q ELSE q + 1

(***************************************************************************)
(* The outlier clipper of clv_prediction.py and flo_clv.py.                *)
(***************************************************************************)
\* the values of a long column in ascending order: the k-th is the value
\* with fewer than k values below it and at least k values not above it
Sorted(col) ==
    [k \in 1..Len(col) |->
        CHOOSE v \in Range(col) :
            /\ Cardinality({i \in 1..Len(col) : col[i] < v}) < k
            /\ k <= Cardinality({i \in 1..Len(col) : col[i] <= v})]

\* outlier_thresholds: quantile(0.01) and quantile(0.99) of the column,
\* up_limit = q99 + 1.5 * (q99 - q01), low_limit = q01 - 1.5 * (q99 - q01)
outlier_thresholds(col) ==
    LET v == Sorted(col)
        q1 == QuantileTimes(v, 1, 100)
        q3 == QuantileTimes(v, 99, 100)
    IN  [low_limit |-> Rat(2 * q1 - 3 * (q3 - q1), 200),
         up_limit |-> Rat(2 * q3 + 3 * (q3 - q1), 200)]

\* a clipper that also raises the values below low_limit to low_limit
replace_with_thresholds_both(t, variable) ==
    IF t = <<>> THEN t
    ELSE LET lim == outlier_thresholds(Column(t, variable))
         IN  [i \in 1..Len(t) |->
                [t[i] EXCEPT ![variable] =
                    IF RatLess(lim.up_limit, RatInt(@)) THEN lim.up_limit
                    ELSE IF RatLess(RatInt(@), lim.low_limit) THEN lim.low_limit
                         ELSE RatInt(@)]]

\* clv_prediction.replace_with_thresholds: only the values above up_limit
\* are replaced, by up_limit itself; the column becomes fractional
replace_with_thresholds(t, variable) ==
    IF t = <<>> THEN t
    ELSE LET lim == outlier_thresholds(Column(t, variable))
         IN  [i \in 1..Len(t) |->
                [t[i] EXCEPT ![variable] =
                    IF RatLess(lim.up_limit, RatInt(@)) THEN lim.up_limit
                    ELSE RatInt(@)]]

\* flo_clv.replace_with_thresholds: values below low_limit and above
\* up_limit are replaced by the limits rounded to whole numbers
flo_replace_with_thresholds(t, variable) ==
    IF t = <<>> THEN t
    ELSE LET lim == outlier_thresholds(Column(t, variable))
         IN  [i \in 1..Len(t) |->
                [t[i] EXCEPT ![variable] =
                    IF RatLess(RatInt(@), lim.low_limit)
                    THEN round_half_even(lim.low_limit)
                    ELSE IF RatLess(lim.up_limit, RatInt(@))
                         THEN round_half_even(lim.up_limit)
                         ELSE @]]

(***************************************************************************)
(* clv_prediction.py: data preparation and the CLV-mode aggregation.       *)
(***************************************************************************)
ClvpScript == "clv_prediction.script"
ClvpFunc == "clv_prediction.create_clv_period"
FloClvScript == "flo_clv.script"
FloClvFunc == "flo_clv.create_clv_df"

ClvProgs == {ClvpScript, ClvpFunc, FloClvScript, FloClvFunc}

IsFloClv(p) == p \in {FloClvScript, FloClvFunc}

\* further purchase histories, for the CLV mode
ClvTxProfile(k, c, t) ==
    CASE k = 8 -> \* the second invoice is dated after the analysis date
            << Row(<<"1", "3">>, Num(c), 1, 10, t - 10 * UnitsPerDay),
               Row(<<"1", "4">>, Num(c), 2, 5, t + 3 * UnitsPerDay) >>
      [] k = 9 -> \* two invoices on the same day, and a free item
            << Row(<<"1", "5">>, Num(c), 1, 6, t - 30 * UnitsPerDay),
               Row(<<"1", "6">>, Num(c), 3, 6, t - 30 * UnitsPerDay + 1),
               Row(<<"1", "7">>, Num(c), 1, 0, t - 4 * UnitsPerDay) >>
      [] OTHER -> TxProfile(k, c, t)

ClvTxProfiles == {1, 2, 4, 5, 8, 9}

ClvTxTable(choice, t) ==
    Flatten([i \in 1..Len(choice) |->
                ClvTxProfile(choice[i], Len(choice) + 1 - i, t)])

ClvFloProfile(k, c, t) ==
    CASE k = 7 -> \* the last order is dated after the analysis date
                  FloRow(c, Num(t - 40 * UnitsPerDay), Num(t + 5 * UnitsPerDay),
                         2, 1, 12, 9, <<ERKEK>>)
      [] k = 8 -> \* a single order
                  FloRow(c, Num(t - 15 * UnitsPerDay), Num(t - 15 * UnitsPerDay),
                         1, 0, 0, 25, <<KADIN>>)
      [] OTHER -> FloProfile(k, c, t)

ClvFloProfiles == {1, 2, 3, 5, 7, 8}

ClvFloTable(choice, t) ==
    [i \in 1..Len(choice) |-> ClvFloProfile(choice[i], Len(choice) + 1 - i, t)]

positive_quantity(t) == SelectSeq(t, LAMBDA r : r.Quantity > 0)

positive_price(t) == SelectSeq(t, LAMBDA r : r.Price > 0)

\* dataframe["TotalPrice"] = dataframe["Quantity"] * dataframe["Price"],
\* on the clipped columns
WithClippedTotalPrice(t) ==
    [i \in 1..Len(t) |-> t[i] @@ [TotalPrice |-> RatMul(t[i].Quantity, t[i].Price)]]

\* the statements of clv_prediction between dropna and the grouping
clvp_clean(t) ==
    WithClippedTotalPrice(
        replace_with_thresholds(
            replace_with_thresholds(
                positive_price(positive_quantity(drop_cancellations(t))),
                "Quantity"),
            "Price"))

MinSeq(s) == 0 - MaxSeq([i \in 1..Len(s) |-> 0 - s[i]])

to_days(x) == x

\* clv_df["recency"] / 7
to_weeks(x) == RatDivInt(x, 7)

\* clv_df["monetary"] / clv_df["frequency"]
clv_monetary(total, frequency) == RatDivInt(total, frequency)

\* dataframe.groupby('Customer ID').agg({...}): recency and T in days,
\* frequency, the monetary total divided by the frequency
clvp_groupby_agg(p, t) ==
    LET ids == SortedKeys(CustomerIds(t))
    IN  [i \in 1..Len(ids) |->
            LET rows == RowsOf(t, ids[i])
                dates == Column(rows, "InvoiceDate")
                f == agg_frequency(rows)
            IN  [customer_id |-> ids[i],
                 recency |-> RatInt(days(MaxSeq(dates) - MinSeq(dates))),
                 T |-> RatInt(days(today_date(p) - MinSeq(dates))),
                 frequency |-> f,
                 monetary |-> clv_monetary(RatSum(Column(rows, "TotalPrice")), f)]]

\* clv_df[(clv_df['frequency'] > 1)]
repeat_customers(t) == SelectSeq(t, LAMBDA r : r.frequency > 1)

(***************************************************************************)
(* flo_clv.py: data preparation and the CLV-mode columns.                  *)
(***************************************************************************)
flo_clip_columns(t) ==
    flo_replace_with_thresholds(
        flo_replace_with_thresholds(
            flo_replace_with_thresholds(
                flo_replace_with_thresholds(t, "order_num_total_ever_online"),
                "order_num_total_ever_offline"),
            "customer_value_total_ever_offline"),
        "customer_value_total_ever_online")

\* dataframe[~(dataframe["customer_value_total"] == 0)
\*           | (dataframe["order_num_total"] == 0)]
flo_exclusion_filter(t) ==
    SelectSeq(t, LAMBDA r : ~(r.customer_value_total = 0) \/ r.order_num_total = 0)

flo_clv_columns(t) ==
    [i \in 1..Len(t) |->
        [customer_id |-> t[i].master_id,
         recency_clv_weekly |->
            to_weeks(RatInt(days(Val(t[i].last_order_date)
                                 - Val(t[i].first_order_date)))),
         T_weekly |->
            to_weeks(RatInt(days(analysis_date - Val(t[i].first_order_date)))),
         frequency |-> t[i].order_num_total,
         monetary_clv_avg |->
            clv_monetary(RatInt(t[i].customer_value_total), t[i].order_num_total)]]

RecencyColumn(p) == IF IsFloClv(p) THEN "recency_clv_weekly" ELSE "recency"

TColumn(p) == IF IsFloClv(p) THEN "T_weekly" ELSE "T"

MonetaryColumn(p) == IF IsFloClv(p) THEN "monetary_clv_avg" ELSE "monetary"

(***************************************************************************)
(* The CLV pipelines: clv_prediction.py (script and create_clv_period) and *)
(* flo_clv.py (script and create_clv_df), up to the lifetime value.        *)
(***************************************************************************)
MaxClvCust == 3

ClvInputTables(p) ==
    IF IsFloClv(p)
    THEN {ClvFloTable(ch, analysis_date) : ch \in SeqsUpTo(ClvFloProfiles, 1, MaxClvCust)}
    ELSE {ClvTxTable(ch, today_date(p)) : ch \in SeqsUpTo(ClvTxProfiles, 1, MaxClvCust)}

InitCLV ==
    /\ prog \in ClvProgs
    /\ pc = "prepare"
    /\ df \in ClvInputTables(prog)
    /\ dataframe = df
    /\ rfm = <<>>
    /\ out = None
    /\ calls = <<>>
    /\ clv = None
    /\ arg = None
    /\ res = None

\* clv_prediction: dropna acts on the caller's table in place, the filters
\* rebind the name (the script's df, the function's local dataframe).
\* flo_clv: the clipping and the two totals act in place; only the function
\* filters rows afterwards.
ClvPrepare ==
    /\ prog \in ClvProgs
    /\ pc = "prepare"
    /\ IF IsFloClv(prog)
       THEN /\ df' = flo_prep(flo_clip_columns(df))
            /\ dataframe' = IF prog = FloClvFunc THEN flo_exclusion_filter(df')
                            ELSE df'
       ELSE /\ dataframe' = clvp_clean(dropna(df))
            /\ df' = IF prog = ClvpScript THEN dataframe' ELSE dropna(df)
    /\ pc' = "aggregate"
    /\ UNCHANGED <<prog, rfm, out, calls, clv, arg, res>>

\* the table clv_df: grouped and averaged in clv_prediction (still in days),
\* computed per row and already in weeks in flo_clv; the script of flo_clv
\* has no frequency filter
ClvAggregate ==
    /\ pc = "aggregate"
    /\ rfm' = CASE prog = FloClvScript -> flo_clv_columns(dataframe)
                [] prog = FloClvFunc -> repeat_customers(flo_clv_columns(dataframe))
                [] OTHER -> repeat_customers(clvp_groupby_agg(prog, dataframe))
    /\ pc' = IF IsFloClv(prog) THEN "bgf_fit" ELSE "weekly"
    /\ UNCHANGED <<prog, df, dataframe, out, calls, clv, arg, res>>

\* clv_df["recency"] = clv_df["recency"] / 7; clv_df["T"] = clv_df["T"] / 7
ClvWeekly ==
    /\ pc = "weekly"
    /\ rfm' = [i \in 1..Len(rfm) |->
                [rfm[i] EXCEPT !.recency = to_weeks(@), !.T = to_weeks(@)]]
    /\ pc' = "bgf_fit"
    /\ UNCHANGED <<prog, df, dataframe, out, calls, clv, arg, res>>

\* the columns a call to the purchase model receives
BgfArgs(fn) ==
    [fn |-> fn,
     frequency |-> Column(rfm, "frequency"),
     recency |-> Column(rfm, RecencyColumn(prog)),
     T |-> Column(rfm, TColumn(prog))]

\* the columns a call to the spend model receives
GgfArgs(fn) ==
    [fn |-> fn,
     frequency |-> Column(rfm, "frequency"),
     monetary |-> Column(rfm, MonetaryColumn(prog))]

\* the columns customer_lifetime_value receives
ClvArgs ==
    [fn |-> "ggf.customer_lifetime_value",
     frequency |-> Column(rfm, "frequency"),
     recency |-> Column(rfm, RecencyColumn(prog)),
     T |-> Column(rfm, TColumn(prog)),
     monetary |-> Column(rfm, MonetaryColumn(prog))]

\* an estimate is kept as the term that produced it: the estimator's
\* arithmetic is the library's
Estimate(fn, t) == [i \in 1..Len(rfm) |-> [fn |-> fn, t |-> t, of |-> rfm[i].customer_id]]

\* bgf.fit(frequency, recency, T): fits, or raises (no convergence)
BgfFit ==
    /\ pc = "bgf_fit"
    /\ calls' = Append(calls, BgfArgs("bgf.fit"))
    /\ \/ pc' = "bgf_predict"
       \/ pc' = "failed"
    /\ UNCHANGED <<prog, df, dataframe, rfm, out, clv, arg, res>>

\* the horizons (weeks) of the predictions each program stores, with the
\* columns they go to
Horizons(p) ==
    IF IsFloClv(p)
    THEN << <<12, "exp_sales_3_month">>, <<24, "exp_sales_6_month">> >>
    ELSE << <<1, "expected_purc_1_week">>, <<4, "expected_purc_1_month">>,
            <<12, "expected_purc_3_month">> >>

RECURSIVE AddEstimates(_, _)
AddEstimates(t, hs) ==
    IF hs = <<>> THEN t
    ELSE AddEstimates(AddColumn(t, Head(hs)[2], Estimate("bgf.predict", Head(hs)[1])),
                      Tail(hs))

\* the script of clv_prediction also prints five predictions it does not
\* store, and one average profit
PredictCalls(p) == IF p = ClvpScript THEN 8 ELSE Len(Horizons(p))

ProfitCalls(p) == IF p = ClvpScript THEN 2 ELSE 1

\* bgf.predict(t, frequency, recency, T) for each horizon
BgfPredict ==
    /\ pc = "bgf_predict"
    /\ calls' = calls \o [k \in 1..PredictCalls(prog) |-> BgfArgs("bgf.predict")]
    /\ rfm' = AddEstimates(rfm, Horizons(prog))
    /\ pc' = "ggf_fit"
    /\ UNCHANGED <<prog, df, dataframe, out, clv, arg, res>>

\* ggf.fit(frequency, monetary): fits, or raises
GgfFit ==
    /\ pc = "ggf_fit"
    /\ calls' = Append(calls, GgfArgs("ggf.fit"))
    /\ \/ pc' = "ggf_profit"
       \/ pc' = "failed"
    /\ UNCHANGED <<prog, df, dataframe, rfm, out, clv, arg, res>>

ProfitColumn(p) == IF IsFloClv(p) THEN "exp_average_value" ELSE "expected_average_profit"

\* ggf.conditional_expected_average_profit(frequency, monetary)
GgfProfit ==
    /\ pc = "ggf_profit"
    /\ calls' = calls \o [k \in 1..ProfitCalls(prog) |->
                            GgfArgs("ggf.conditional_expected_average_profit")]
    /\ rfm' = AddColumn(rfm, ProfitColumn(prog),
                        Estimate("ggf.conditional_expected_average_profit", 0))
    /\ pc' = "lifetime_value"
    /\ UNCHANGED <<prog, df, dataframe, out, clv, arg, res>>

\* the months of the lifetime value: 3 in clv_prediction, 6 in flo_clv
Months(p) == IF IsFloClv(p) THEN 6 ELSE 3

\* clv = ggf.customer_lifetime_value(bgf, frequency, recency, T, monetary,
\*                                   time, freq="W", discount_rate=0.01)
LifetimeValue ==
    /\ pc = "lifetime_value"
    /\ calls' = Append(calls, ClvArgs)
    /\ clv' = Estimate("ggf.customer_lifetime_value", Months(prog))
    /\ pc' = "merge"
    /\ UNCHANGED <<prog, df, dataframe, rfm, out, arg, res>>

NextCLV ==
    \/ ClvPrepare
    \/ ClvAggregate
    \/ ClvWeekly
    \/ BgfFit
    \/ BgfPredict
    \/ GgfFit
    \/ GgfProfit
    \/ LifetimeValue

SpecCLV == InitCLV /\ [][NextCLV]_vars

(***************************************************************************)
(* Claims on the CLV-mode aggregation.                                     *)
(***************************************************************************)
\* clv_df exists
ClvBuilt == pc \notin {"prepare", "aggregate"}

\* the rows of customer c among the rows the CLV columns are computed from
ClvRows(c) ==
    IF IsFloClv(prog) THEN {i \in 1..Len(dataframe) : dataframe[i].master_id = c}
    ELSE CleanRows(c)

FirstDate(i) ==
    IF IsFloClv(prog) THEN Val(dataframe[i].first_order_date)
    ELSE dataframe[i].InvoiceDate

LastDate(i) ==
    IF IsFloClv(prog) THEN Val(dataframe[i].last_order_date)
    ELSE dataframe[i].InvoiceDate

FirstPurchase(c) ==
    FirstDate(CHOOSE i \in ClvRows(c) : \A j \in ClvRows(c) : FirstDate(i) <= FirstDate(j))

LastPurchase(c) ==
    LastDate(CHOOSE i \in ClvRows(c) : \A j \in ClvRows(c) : LastDate(i) >= LastDate(j))

AnalysisTimestamp == IF IsFloClv(prog) THEN analysis_date ELSE today_date(prog)

\* the number of purchases of customer c: distinct invoices, or the two
\* order counts of the customer's row
Purchases(c) ==
    IF IsFloClv(prog)
    THEN LET i == CHOOSE x \in ClvRows(c) : TRUE
         IN  dataframe[i].order_num_total_ever_online
             + dataframe[i].order_num_total_ever_offline
    ELSE Cardinality({dataframe[i].Invoice : i \in ClvRows(c)})

\* the customer's total of quantity x unit price, or the two value totals
RECURSIVE Spend(_)
Spend(I) ==
    IF I = {} THEN RatInt(0)
    ELSE LET i == CHOOSE x \in I : TRUE
         IN  IF IsFloClv(prog)
             THEN RatInt(dataframe[i].customer_value_total_ever_offline
                         + dataframe[i].customer_value_total_ever_online)
             ELSE RatAdd(RatMul(dataframe[i].Quantity, dataframe[i].Price),
                         Spend(I \ {i}))

\* r, multiplied by k, is the whole number of days in the time span
IsDays(r, span, k) ==
    /\ (r.n * k) % r.d = 0
    /\ LET d == (r.n * k) \div r.d
       IN  d * UnitsPerDay <= span /\ span < (d + 1) * UnitsPerDay

\* 1 while the two columns are still in days, 7 once they are in weeks
Per == IF pc = "weekly" THEN 1 ELSE 7

ClvRecordRight(r) ==
    LET c == r.customer_id
    IN  /\ ClvRows(c) # {}
        /\ IsDays(r[RecencyColumn(prog)], LastPurchase(c) - FirstPurchase(c), Per)
        /\ IsDays(r[TColumn(prog)], AnalysisTimestamp - FirstPurchase(c), Per)
        /\ r.frequency = Purchases(c)
        /\ RatEq(RatMul(r[MonetaryColumn(prog)], RatInt(r.frequency)),
                 Spend(ClvRows(c)))

SameColumns(call) ==
    /\ call.frequency = Column(rfm, "frequency")
    /\ "recency" \in DOMAIN call =>
            /\ call.recency = Column(rfm, RecencyColumn(prog))
            /\ call.T = Column(rfm, TColumn(prog))
    /\ "monetary" \in DOMAIN call =>
            call.monetary = Column(rfm, MonetaryColumn(prog))

\* C9: in every CLV pipeline each customer record has recency = the whole
\* days from the customer's first to last transaction, T = the whole days
\* from the first transaction to the analysis timestamp, frequency = the
\* number of distinct invoices (orders) and monetary = the customer's total
\* of quantity x unit price divided by that frequency; recency and T are
\* divided by 7 before any estimator is called, and every fit, predict,
\* profit and lifetime-value call receives exactly these weekly columns.
C9_ClvAggregation ==
    ClvBuilt =>
        /\ \A n \in 1..Len(rfm) : ClvRecordRight(rfm[n])
        /\ calls # <<>> => pc # "weekly"
        /\ \A k \in 1..Len(calls) : SameColumns(calls[k])

\* the function of clv_prediction has run to the lifetime value on two or
\* more repeat customers, one of them with a span that is not whole weeks
C9_Witness ==
    /\ prog = ClvpFunc
    /\ pc = "merge"
    /\ Len(rfm) >= 2
    /\ Len(calls) = 7
    /\ \E n \in 1..Len(rfm) :
            /\ rfm[n].frequency = 3
            /\ rfm[n].recency.n % rfm[n].recency.d # 0

\* C10: in every CLV pipeline, before and after the weekly rescaling, each
\* customer record has T >= recency.
C10_TNotBelowRecency ==
    ClvBuilt =>
        \A n \in 1..Len(rfm) :
            RatLeq(rfm[n][RecencyColumn(prog)], rfm[n][TColumn(prog)])

\* C11: in every CLV pipeline each record passed to bgf.fit and to every
\* later predict, average-profit and lifetime-value call has frequency > 1,
\* and a customer with exactly one purchase gets no lifetime value.
C11_OnlyRepeatCustomersFitted ==
    /\ \A k \in 1..Len(calls) :
            \A i \in 1..Len(calls[k].frequency) : calls[k].frequency[i] > 1
    /\ clv # None => \A i \in 1..Len(clv) : Purchases(clv[i].of) > 1

(***************************************************************************)
(* Claims on which customers and which rows reach the RFM table.           *)
(***************************************************************************)
\* the RFM table exists
RfmBuilt == pc \notin {"prepare", "metrics"}

\* a transaction row with a positive quantity and a positive unit price
ValidRow(r) == r.Quantity > 0 /\ r.Price > 0

InRfm(c) == \E n \in 1..Len(rfm) : rfm[n].customer_id = c

\* C12: in RFM mode every customer with at least one valid transaction row
\* (one order, in flo_rfm) is in the RFM table, every record of the table
\* has frequency >= 1, and no record belongs to a customer without a valid
\* row.
C12_RfmRetention ==
    (prog \in RfmProgs /\ RfmBuilt) =>
        /\ \A n \in 1..Len(rfm) : Val(rfm[n].frequency) >= 1
        /\ IsTx(prog) =>
            /\ \A i \in 1..Len(dataframe) :
                    ValidRow(dataframe[i]) => InRfm(Val(dataframe[i].CustomerID))
            /\ \A n \in 1..Len(rfm) :
                    \E i \in CleanRows(rfm[n].customer_id) : ValidRow(dataframe[i])
        /\ IsFlo(prog) =>
            \A i \in 1..Len(dataframe) :
                dataframe[i].order_num_total >= 1 => InRfm(dataframe[i].master_id)

\* the rows handed to groupby('Customer ID')
Grouped == pc # "prepare"

\* C13: in the transaction-level pipelines no cancellation row and no row
\* with quantity <= 0 or unit price <= 0 is among the rows that are grouped
\* per customer.
C13_OnlyValidRowsGrouped ==
    (IsTx(prog) /\ Grouped) =>
        \A i \in 1..Len(dataframe) :
            /\ ~str_startswith(dataframe[i].Invoice, "C")
            /\ ValidRow(dataframe[i])

\* the row r of the caller's table is among the grouped rows
Kept(r) == \E j \in 1..Len(dataframe) : dataframe[j] = r

\* C14: a row is dropped by the cancellation filter exactly when its
\* invoice id starts with "C" (create_rfm of rfm_analytics, whose caller's
\* table keeps every row that has a customer id).
C14_DroppedIffMarkerPrefix ==
    (prog = RfmFunc /\ Grouped) =>
        \A i \in 1..Len(df) : Kept(df[i]) <=> ~str_startswith(df[i].Invoice, "C")

(***************************************************************************)
(* The outlier clipper on its own: one call of replace_with_thresholds on  *)
(* a table of two columns.  A value is beyond the limits only in a column  *)
(* of more than sixty rows, so the columns are long and nearly constant:   *)
(* one low value, one high value, the rest at Base.                        *)
(***************************************************************************)
ClipClvp == "clv_prediction.replace_with_thresholds"
ClipFlo == "flo_clv.replace_with_thresholds"

MinRows == 61
MaxRows == 63
Base == 12
MaxOutlier == 24

ClipColumn(n, lo, hi) == [i \in 1..n |-> IF i = 2 THEN lo ELSE IF i = n - 1 THEN hi ELSE Base]

ClipTable(n, lo, hi, variable) ==
    LET other == IF variable = "Quantity" THEN "Price" ELSE "Quantity"
    IN  [i \in 1..n |-> (variable :> ClipColumn(n, lo, hi)[i]) @@ (other :> (i % 3) + 1)]

InitClip ==
    /\ prog \in {ClipClvp, ClipFlo}
    /\ pc = "clip"
    /\ arg \in {"Quantity", "Price"}
    /\ \E n \in MinRows..MaxRows, lo \in 0..Base, hi \in Base..MaxOutlier :
            df = ClipTable(n, lo, hi, arg)
    /\ dataframe = df
    /\ rfm = <<>>
    /\ out = None
    /\ calls = <<>>
    /\ clv = None
    /\ res = None

\* replace_with_thresholds(dataframe, variable); df keeps the table as it
\* was before the call
Clip ==
    /\ pc = "clip"
    /\ dataframe' = IF prog = ClipFlo THEN flo_replace_with_thresholds(dataframe, arg)
                    ELSE replace_with_thresholds(dataframe, arg)
    /\ pc' = "clipped"
    /\ UNCHANGED <<prog, df, rfm, out, calls, clv, arg, res>>

NextClip == Clip

SpecClip == InitClip /\ [][NextClip]_vars

\* the limits, from the column as it was before the call
Limits == outlier_thresholds(Column(df, arg))

Before(i) == RatInt(df[i][arg])

After(i) == IF prog = ClipFlo THEN RatInt(dataframe[i][arg]) ELSE dataframe[i][arg]

\* C15: after replace_with_thresholds every value that exceeded
\* high = Q99 + 1.5 * (Q99 - Q1) equals high and no value of the column
\* exceeds high, in the clipper of clv_prediction and in that of flo_clv.
C15_ClippedToHigh ==
    pc = "clipped" =>
        LET high == Limits.up_limit
        IN  \A i \in 1..Len(df) :
                /\ RatLess(high, Before(i)) => RatEq(After(i), high)
                /\ RatLeq(After(i), high)

\* the column that is not named in the call
OtherColumn == IF arg = "Quantity" THEN "Price" ELSE "Quantity"

\* the whole number a is within one half of the fraction x
NearestTo(a, x) == 2 * (a * x.d - x.n) <= x.d /\ 2 * (x.n - a * x.d) <= x.d

\* C16: replace_with_thresholds of clv_prediction leaves every value that
\* does not exceed high as it was, the values below low included, and
\* changes no other column and no row count; the clipper of flo_clv,
\* and only that one, moves the values below low, to low rounded.
C16_ClipperFrame ==
    pc = "clipped" =>
        LET high == Limits.up_limit
            low == Limits.low_limit
        IN  /\ Len(dataframe) = Len(df)
            /\ \A i \in 1..Len(df) :
                    /\ DOMAIN dataframe[i] = DOMAIN df[i]
                    /\ dataframe[i][OtherColumn] = df[i][OtherColumn]
                    /\ prog = ClipClvp =>
                            (RatLeq(Before(i), high) => RatEq(After(i), Before(i)))
                    /\ prog = ClipFlo =>
                            (RatLess(Before(i), low) => NearestTo(dataframe[i][arg], low))

\* the clipper of clv_prediction has met a value below low and left it
C16_Witness ==
    /\ prog = ClipClvp
    /\ pc = "clipped"
    /\ \E i \in 1..Len(df) :
            /\ RatLess(Before(i), Limits.low_limit)
            /\ RatEq(After(i), Before(i))


(***************************************************************************)
(* A pipeline function called twice on the same table object: the second   *)
(* call receives the caller's table as the first call left it.             *)
(***************************************************************************)
TwiceProgs == {RfmFunc, ClvpFunc, FloClvFunc}

\* a long customer table of flo: every customer alike, but for the online
\* order count of one of them
LongFloTable(n, hi) ==
    [i \in 1..n |->
        FloRow(i, Num(analysis_date - 100 * UnitsPerDay),
               Num(analysis_date - 2 * UnitsPerDay),
               IF i = n - 1 THEN hi ELSE Base, 1, 10, 30, <<KADIN>>)]

TwiceTables(p) ==
    CASE p = RfmFunc ->
            {TxTable(ch, today_date(p)) : ch \in SeqsUpTo(RareTxProfiles, 1, MaxRareCust)}
      [] p = ClvpFunc ->
            {ClvTxTable(ch, today_date(p)) : ch \in SeqsUpTo(ClvTxProfiles, 1, MaxRareCust)}
      [] p = FloClvFunc ->
            {LongFloTable(n, hi) : n \in MinRows..MaxRows, hi \in Base..MaxOutlier}

InitTwice ==
    /\ prog \in TwiceProgs
    /\ pc = "prepare"
    /\ df \in TwiceTables(prog)
    /\ dataframe = df
    /\ rfm = <<>>
    /\ out = None
    /\ calls = <<>>
    /\ clv = None
    /\ arg = None
    /\ res = None

\* the run has returned its table (the CLV runs: up to the lifetime value)
Returned == pc \in {"done", "merge"}

\* the caller keeps what the first call returned and calls the function
\* again with the same table object
Rerun ==
    /\ arg = None
    /\ Returned
    /\ res' = [rfm |-> rfm, out |-> out, clv |-> clv]
    /\ arg' = "again"
    /\ pc' = "prepare"
    /\ dataframe' = df
    /\ rfm' = <<>>
    /\ out' = None
    /\ calls' = <<>>
    /\ clv' = None
    /\ UNCHANGED <<prog, df>>

NextTwice ==
    \/ NextRFM
    \/ NextCLV
    \/ Rerun

SpecTwice == InitTwice /\ [][NextTwice]_vars

\* C17: a second call of a pipeline function on the same table object
\* returns the table the first call returned; the in-place changes the
\* first call made to the caller's table do not show in the result.
C17_SecondRunSame ==
    /\ (arg = "again" /\ Returned) =>
            /\ rfm = res.rfm
            /\ out = res.out
            /\ clv = res.clv
    /\ (arg = "again" /\ prog = RfmFunc) => pc # "failed"

(***************************************************************************)
(* Claims on failing runs.                                                 *)
(***************************************************************************)
\* every pipeline of the repository that is modelled stage by stage
InitPipelines == InitRFM \/ InitCLV

NextPipelines ==
    \/ NextRFM
    \/ NextCLV

SpecPipelines == InitPipelines /\ [][NextPipelines]_vars

\* the position of a stage in a run
StageRank(p) ==
    CASE p = "prepare" -> 1
      [] p \in {"metrics", "aggregate"} -> 2
      [] p = "weekly" -> 3
      [] p = "bgf_fit" -> 4
      [] p = "bgf_predict" -> 5
      [] p = "ggf_fit" -> 6
      [] p = "ggf_profit" -> 7
      [] p = "lifetime_value" -> 8
      [] p = "merge" -> 9
      [] p = "recency_score" -> 3
      [] p = "frequency_score" -> 4
      [] p = "monetary_score" -> 5
      [] p = "rf_score" -> 6
      [] p = "segment" -> 7
      [] p = "export" -> 8
      [] p = "done" -> 9
      [] p = "failed" -> 10

\* every record has its three scores and its segment
FullyScored ==
    \A n \in 1..Len(rfm) :
        {"recency_score", "frequency_score", "monetary_score", "segment"}
            \subseteq DOMAIN rfm[n]

ClvSegFunc == "clv.create_clv_segment"

SegProgs == {ClvpFunc, FloClvFunc, FloClvScript, ClvSegFunc}

MaxSegLen == 14
MaxTies == 2

\* n values from 1 upwards; the positions in ties repeat the value before
SegColumn(n, ties) == [i \in 1..n |-> i - Cardinality({t \in ties : t <= i})]

\* the columns of up to MaxSegLen values with up to MaxTies ties (a tie
\* at position 1 is none)
SegColumns ==
    UNION {{SegColumn(n, Range(q) \ {1}) : q \in [1..MaxTies -> 1..n]} :
           n \in 1..MaxSegLen}

Reversed(col) == [i \in 1..Len(col) |-> col[Len(col) + 1 - i]]

InitClvSeg ==
    /\ prog \in SegProgs
    /\ pc = "merge"
    /\ \E col \in SegColumns : \E v \in {col, Reversed(col)} :
            /\ rfm = [i \in 1..Len(v) |-> [customer_id |-> i]]
            /\ clv = [i \in 1..Len(v) |-> [customer_id |-> i, clv |-> Num(v[i])]]
    /\ df = <<>>
    /\ dataframe = <<>>
    /\ out = None
    /\ calls = <<>>
    /\ arg = None
    /\ res = None

\* left.merge(right[cols + [on]], on=on, how="left"): the rows of left in
\* their order, each once per row of right with the same key (once, with
\* missing values, if there is none)
merge_left(left, right, on, cols) ==
    Flatten([i \in 1..Len(left) |->
        LET hits == SelectSeq(right, LAMBDA r : r[on] = left[i][on])
        IN  IF hits = <<>> THEN << [c \in cols |-> NaN] @@ left[i] >>
            ELSE [k \in 1..Len(hits) |-> [c \in cols |-> hits[k][c]] @@ left[i]]])

\* clv_df["clv"] = clv: the values are aligned on the index
assign_aligned(t, series, name) ==
    [i \in 1..Len(t) |->
        LET hits == SelectSeq(series, LAMBDA r : r.customer_id = t[i].customer_id)
        IN  (name :> (IF hits = <<>> THEN NaN ELSE hits[1][name])) @@ t[i]]

\* clv_prediction merges the clv table on "Customer ID"; flo_clv and clv.py
\* assign the column
ClvMerge ==
    /\ pc = "merge"
    /\ rfm' = IF prog = ClvpFunc THEN merge_left(rfm, clv, "customer_id", {"clv"})
              ELSE assign_aligned(rfm, clv, "clv")
    /\ pc' = "clv_segment"
    /\ UNCHANGED <<prog, df, dataframe, out, calls, clv, arg, res>>

segment_labels == <<"D", "C", "B", "A">>

sub_labels_reversed == <<"A1", "A2">>

sub_labels == <<"A2", "A1">>

SegmentColumn(p) == IF IsFloClv(p) THEN "clv_segment" ELSE "segment"

\* pd.qcut(clv, 4, labels=["D", "C", "B", "A"])
ClvSegment ==
    /\ pc = "clv_segment"
    /\ LET result == qcut(Column(rfm, "clv"), 4, segment_labels)
       IN  IF result.raised
           THEN /\ pc' = "failed"
                /\ rfm' = rfm
           ELSE /\ pc' = IF prog = FloClvScript THEN "sub_segment" ELSE "segmented"
                /\ rfm' = AddColumn(rfm, SegmentColumn(prog), result.value)
    /\ UNCHANGED <<prog, df, dataframe, out, calls, clv, arg, res>>

\* clv_segment becomes the half's label where it was A, and the helper
\* column is dropped
relabel_A(merged) ==
    [i \in 1..Len(merged) |->
        [c \in {"customer_id", "clv", "clv_segment"} |->
            IF c = "clv_segment" /\ merged[i].clv_segment = Num("A")
            THEN merged[i].clv_sub_segment
            ELSE merged[i][c]]]

\* the script of flo_clv: segment A is cut in two, the halves are merged
\* back on the clv value, and A is replaced by the half's label
SplitA ==
    /\ pc = "sub_segment"
    /\ \E segment_A \in {SelectSeq(rfm, LAMBDA r : r.clv_segment = Num("A"))} :
       \E result \in {qcut(Column(segment_A, "clv"), 2, sub_labels)} :
          IF result.raised
          THEN /\ pc' = "failed"
               /\ rfm' = rfm
          ELSE \E halves \in {AddColumn(segment_A, "clv_sub_segment", result.value)} :
               \E merged \in {merge_left(rfm, halves, "clv", {"clv_sub_segment"})} :
                    /\ pc' = "segmented"
                    /\ rfm' = relabel_A(merged)
    /\ UNCHANGED <<prog, df, dataframe, out, calls, clv, arg, res>>

NextClvSeg ==
    \/ ClvMerge
    \/ ClvSegment
    \/ SplitA

SpecClvSeg == InitClvSeg /\ [][NextClvSeg]_vars

\* the segment column has been written
ClvSegmented == pc \in {"sub_segment", "segmented"}

\* the script of flo_clv has split segment A
ASplit == prog = FloClvScript /\ pc = "segmented"

SegmentOf(r) == Val(r[SegmentColumn(prog)])

\* D lowest; A2 is the lower half of A, A1 the upper half
SegmentRank(label) ==
    CASE label = "D" -> 1
      [] label = "C" -> 2
      [] label = "B" -> 3
      [] label \in {"A", "A2"} -> 4
      [] label = "A1" -> 5

\* C19: every customer with a clv has one segment of D, C, B, A, and a
\* customer with the lower clv never has the higher segment; once the
\* script of flo_clv has split A, the segments are D, C, B, A1, A2, no
\* record is left with A, and inside the former A the higher clv has A1.
C19_ClvSegments ==
    ClvSegmented =>
        /\ \A n \in 1..Len(rfm) :
                /\ ~IsNa(rfm[n].clv)
                /\ ~IsNa(rfm[n][SegmentColumn(prog)])
                /\ SegmentOf(rfm[n]) \in
                        (IF ASplit THEN {"D", "C", "B", "A1", "A2"}
                         ELSE {"D", "C", "B", "A"})
        /\ \A a, b \in 1..Len(rfm) :
                Val(rfm[a].clv) <= Val(rfm[b].clv) =>
                    SegmentRank(SegmentOf(rfm[a])) <= SegmentRank(SegmentOf(rfm[b]))

\* the script of flo_clv has split an A of several customers: all five
\* labels are in the table
C19_Witness ==
    /\ ASplit
    /\ {SegmentOf(rfm[n]) : n \in 1..Len(rfm)} = {"D", "C", "B", "A1", "A2"}

\* the clv table is in the customer table
ClvMerged == pc \in {"clv_segment", "sub_segment", "segmented"}

\* C20: after the clv merge of clv_prediction and after the merge of the
\* A1/A2 halves in flo_clv the table has exactly one row per customer.
C20_OneRowPerCustomer ==
    ClvMerged =>
        \A k \in 1..Len(clv) :
            Cardinality({n \in 1..Len(rfm) :
                            rfm[n].customer_id = clv[k].customer_id}) = 1

(***************************************************************************)
(* clv.py: create_clv_segment, the lifetime value computed from averages.  *)
(* A float is a fraction, or one of the values a division by 0.0 gives.    *)
(***************************************************************************)
Abs(x) == IF x < 0 THEN 0 - x ELSE x

RECURSIVE Gcd(_, _)
Gcd(a, b) == IF b = 0 THEN a ELSE Gcd(b, a % b)

\* the fraction in lowest terms
Reduce(a) ==
    LET g == Gcd(Abs(a.n), a.d)
    IN  IF a.n = 0 THEN Rat(0, 1) ELSE Rat(a.n \div g, a.d \div g)

Fin(a) == [kind |-> "num", n |-> Reduce(a).n, d |-> Reduce(a).d]

PosInf == [kind |-> "inf", n |-> 0, d |-> 1]

NegInf == [kind |-> "-inf", n |-> 0, d |-> 1]

NaNFloat == [kind |-> "nan", n |-> 0, d |-> 1]

IsFinite(x) == x.kind = "num"

Sign(x) ==
    CASE x.kind = "inf" -> 1
      [] x.kind = "-inf" -> 0 - 1
      [] x.kind = "num" -> IF x.n > 0 THEN 1 ELSE IF x.n < 0 THEN 0 - 1 ELSE 0

\* x / y of two finite floats, y >= 0: a division by 0.0 raises nothing, it
\* gives inf, -inf, or nan for 0.0 / 0.0
float_div(x, y) ==
    IF y.n = 0
    THEN (IF x.n > 0 THEN PosInf ELSE IF x.n < 0 THEN NegInf ELSE NaNFloat)
    ELSE Fin(Rat(x.n * y.d, x.d * y.n))

\* x * y: nan stays nan, inf * 0.0 is nan
float_mul(x, y) ==
    IF x.kind = "nan" \/ y.kind = "nan" THEN NaNFloat
    ELSE IF IsFinite(x) /\ IsFinite(y) THEN Fin(Rat(x.n * y.n, x.d * y.d))
         ELSE IF Sign(x) * Sign(y) > 0 THEN PosInf
              ELSE IF Sign(x) * Sign(y) < 0 THEN NegInf
                   ELSE NaNFloat

\* further purchase histories, for clv.py
CltvTxProfile(k, c, t) ==
    CASE k = 11 -> \* a purchase and a larger negative-price adjustment
            << Row(<<"3", "0">>, Num(c), 1, 6, t - 25 * UnitsPerDay),
               Row(<<"3", "1">>, Num(c), 1, 0 - 10, t - 11 * UnitsPerDay) >>
      [] k = 12 -> \* nothing but a free item
            << Row(<<"3", "2">>, Num(c), 2, 0, t - 6 * UnitsPerDay) >>
      [] OTHER -> ClvTxProfile(k, c, t)

CltvTxProfiles == {1, 2, 3, 5, 7, 9, 11, 12}

CltvTxTable(choice, t) ==
    Flatten([i \in 1..Len(choice) |->
                CltvTxProfile(choice[i], Len(choice) + 1 - i, t)])

MaxCltvCust == 3

\* profit=0.10
profit == Rat(1, 10)

InitCltv ==
    /\ prog = ClvSegFunc
    /\ pc = "prepare"
    /\ df \in {CltvTxTable(ch, today_date(RfmFunc)) :
                    ch \in SeqsUpTo(CltvTxProfiles, 1, MaxCltvCust)}
    /\ dataframe = df
    /\ rfm = <<>>
    /\ out = None
    /\ calls = <<>>
    /\ clv = None
    /\ arg = None
    /\ res = None

\* the two filters rebind the name, so dropna and TotalPrice act on the
\* function's own table
CltvPrepare ==
    /\ prog = ClvSegFunc
    /\ pc = "prepare"
    /\ dataframe' = WithTotalPrice(dropna(positive_quantity(drop_cancellations(df))))
    /\ pc' = "cltv_aggregate"
    /\ UNCHANGED <<prog, df, rfm, out, calls, clv, arg, res>>

\* groupby('Customer ID').agg(nunique of Invoice, sum of Quantity, sum of
\* TotalPrice), renamed total_transaction, total_unit, total_price
cltv_groupby_agg(t) ==
    LET ids == SortedKeys(CustomerIds(t))
    IN  [i \in 1..Len(ids) |->
            LET rows == RowsOf(t, ids[i])
            IN  [customer_id |-> ids[i],
                 total_transaction |-> agg_frequency(rows),
                 total_unit |-> SumSeq(Column(rows, "Quantity")),
                 total_price |-> SumSeq(Column(rows, "TotalPrice"))]]

CltvAggregate ==
    /\ pc = "cltv_aggregate"
    /\ rfm' = cltv_groupby_agg(dataframe)
    /\ pc' = "cltv_parameters"
    /\ UNCHANGED <<prog, df, dataframe, out, calls, clv, arg, res>>

\* cltv_c[cltv_c.total_transaction > 1].shape[0] / cltv_c.shape[0]
repeat_rate(t) == Rat(Len(SelectSeq(t, LAMBDA r : r.total_transaction > 1)), Len(t))

\* 1 - repeat_rate
churn_rate(t) == Fin(Rat(repeat_rate(t).d - repeat_rate(t).n, repeat_rate(t).d))

\* the columns avg_order_value ... cltv of one record
cltv_columns(r, n, churn) ==
    LET avg_order_value == Fin(Rat(r.total_price, r.total_transaction))
        purchase_frequency == Fin(Rat(r.total_transaction, n))
        profit_margin == Fin(Rat(r.total_price * profit.n, profit.d))
        customer_value == float_mul(avg_order_value, purchase_frequency)
    IN  [avg_order_value |-> avg_order_value,
         purchase_frequency |-> purchase_frequency,
         profit_margin |-> profit_margin,
         customer_value |-> customer_value,
         cltv |-> float_mul(float_div(customer_value, churn), profit_margin)] @@ r

\* the parameters and the lifetime value; on a table without customers the
\* repeat rate is 0 / 0 of two Python ints, which raises ZeroDivisionError
CltvParameters ==
    /\ pc = "cltv_parameters"
    /\ IF rfm = <<>>
       THEN /\ pc' = "failed"
            /\ UNCHANGED <<rfm, res>>
       ELSE /\ res' = [repeat_rate |-> repeat_rate(rfm), churn_rate |-> churn_rate(rfm)]
            /\ rfm' = [i \in 1..Len(rfm) |->
                          cltv_columns(rfm[i], Len(rfm), churn_rate(rfm))]
            /\ pc' = "cltv_segment"
    /\ UNCHANGED <<prog, df, dataframe, out, calls, clv, arg>>

RECURSIVE ProdSeq(_)
ProdSeq(s) == IF s = <<>> THEN 1 ELSE Head(s) * ProdSeq(Tail(s))

\* a column of finite floats as whole numbers over one common denominator
\* (the bins of qcut do not depend on the unit)
OverCommonDenominator(col) ==
    LET D == ProdSeq([i \in 1..Len(col) |-> col[i].d])
    IN  [i \in 1..Len(col) |-> Num(col[i].n * (D \div col[i].d))]

\* pd.qcut(cltv_c["cltv"], 4, labels=["D", "C", "B", "A"]); what the
\* quantiles of a column with inf or nan give is left open: the call raises,
\* or the records stay without label
CltvSegment ==
    /\ pc = "cltv_segment"
    /\ IF \A i \in 1..Len(rfm) : IsFinite(rfm[i].cltv)
       THEN LET result == qcut(OverCommonDenominator(Column(rfm, "cltv")), 4,
                               segment_labels)
            IN  IF result.raised
                THEN /\ pc' = "failed"
                     /\ rfm' = rfm
                ELSE /\ pc' = "segmented"
                     /\ rfm' = AddColumn(rfm, "segment", result.value)
       ELSE \/ /\ pc' = "failed"
               /\ rfm' = rfm
            \/ /\ pc' = "segmented"
               /\ rfm' = AddColumn(rfm, "segment", [i \in 1..Len(rfm) |-> NaN])
    /\ out' = IF pc' = "segmented" THEN [returned |-> rfm', files |-> <<>>] ELSE out
    /\ UNCHANGED <<prog, df, dataframe, calls, clv, arg, res>>

NextCltv ==
    \/ CltvPrepare
    \/ CltvAggregate
    \/ CltvParameters
    \/ CltvSegment

SpecCltv == InitCltv /\ [][NextCltv]_vars

\* the cltv column has been computed
CltvComputed == pc \in {"cltv_segment", "segmented"} \/ (pc = "failed" /\ HasColumn(rfm, "cltv"))

\* C21: in clv.create_clv_segment the lifetime value of every customer,
\* (customer_value / churn_rate) * profit_margin, is a defined number and
\* is not negative, for every input table: also when every customer has
\* more than one transaction and when a customer's total price is negative.
C21_CltvDefinedNonNegative ==
    CltvComputed =>
        \A n \in 1..Len(rfm) :
            /\ IsFinite(rfm[n].cltv)
            /\ rfm[n].cltv.n >= 0

(***************************************************************************)
(* flo_clv.py on customers without orders or without spending: the two     *)
(* pipelines of the file, from the preparation to the lifetime value.      *)
(***************************************************************************)
\* further customers of flo
ZeroFloProfile(k, c, t) ==
    CASE k = 9 -> \* no order and no spending on record
                  FloRow(c, Num(t - 70 * UnitsPerDay), Num(t - 70 * UnitsPerDay),
                         0, 0, 0, 0, <<KADIN>>)
      [] k = 10 -> \* two orders that cost nothing
                  FloRow(c, Num(t - 80 * UnitsPerDay), Num(t - 12 * UnitsPerDay),
                         1, 1, 0, 0, <<ERKEK>>)
      [] k = 11 -> \* spending on record, but no order
                  FloRow(c, Num(t - 45 * UnitsPerDay), Num(t - 45 * UnitsPerDay),
                         0, 0, 4, 6, <<COCUK>>)
      [] OTHER -> ClvFloProfile(k, c, t)

ZeroFloProfiles == {1, 2, 8, 9, 10, 11}

ZeroFloTable(choice, t) ==
    [i \in 1..Len(choice) |-> ZeroFloProfile(choice[i], Len(choice) + 1 - i, t)]

MaxZeroCust == 3

InitFloClv ==
    /\ prog \in {FloClvScript, FloClvFunc}
    /\ pc = "prepare"
    /\ df \in {ZeroFloTable(ch, analysis_date) :
                    ch \in SeqsUpTo(ZeroFloProfiles, 1, MaxZeroCust)}
    /\ dataframe = df
    /\ rfm = <<>>
    /\ out = None
    /\ calls = <<>>
    /\ clv = None
    /\ arg = None
    /\ res = None

NextFloClv ==
    \/ ClvPrepare
    \/ ClvAggregate
    \/ BgfFit
    \/ BgfPredict
    \/ GgfFit
    \/ GgfProfit
    \/ LifetimeValue

SpecFloClv == InitFloClv /\ [][NextFloClv]_vars

\* the exclusion filter of create_clv_df has run
Filtered == prog = FloClvFunc /\ pc # "prepare"

\* C22: after the exclusion filter of flo_clv.create_clv_df no remaining
\* customer has customer_value_total = 0 and none has order_num_total = 0,
\* so the divisor of monetary_clv_avg is never zero.
C22_NoZeroDivisor ==
    Filtered =>
        \A i \in 1..Len(dataframe) :
            /\ dataframe[i].customer_value_total # 0
            /\ dataframe[i].order_num_total # 0

(***************************************************************************)
(* Claims on the target lists of flo_rfm.py.                               *)
(***************************************************************************)
\* the word occurs in the text
Occurs(word, text) ==
    \E k \in 1..(Len(text) - Len(word) + 1) :
        SubSeq(text, k, k + Len(word) - 1) = word

\* the segments of the discount campaign
DiscountSegments == {cant_loose, hibernating, new_customers}

\* the customer of row i of df qualifies for the discount list
Qualifies(i) ==
    /\ \E n \in 1..Len(rfm) :
            /\ rfm[n].customer_id = df[i].master_id
            /\ rfm[n].segment \in DiscountSegments
    /\ \/ Occurs(ERKEK, df[i].interested_in_categories_12)
       \/ Occurs(COCUK, df[i].interested_in_categories_12)

DiscountList == out.files.discount_target_customer_ids_csv

NumRules == Len(seg_map(RfmFunc))

ScoreKeyValues ==
    {<<a, b>> : a \in Digits15, b \in Digits15}
        \cup {<<"n", "a", "n", b>> : b \in Digits15}

Rotation(k) == [i \in 1..NumRules |-> ((i + k - 1) % NumRules) + 1]

Exchange(a, b) == [i \in 1..NumRules |-> IF i = a THEN b ELSE IF i = b THEN a ELSE i]

ReverseOrder == [i \in 1..NumRules |-> NumRules + 1 - i]

RuleOrders ==
    {Rotation(k) : k \in 0..(NumRules - 1)}
        \cup {Exchange(a, b) : a \in 1..NumRules, b \in 1..NumRules}
        \cup {ReverseOrder}

\* the rules of seg_map, taken in the given order
Reordered(rules, order) == [i \in 1..Len(rules) |-> rules[order[i]]]

InitOrder ==
    /\ prog \in RfmProgs
    /\ pc = "classify"
    /\ arg \in [key : ScoreKeyValues, order : RuleOrders]
    /\ res = None
    /\ df = <<>>
    /\ dataframe = <<>>
    /\ rfm = <<>>
    /\ out = None
    /\ calls = <<>>
    /\ clv = None

\* the score column holds the one key; replace(seg_map, regex=True) is
\* applied with the rules in dict order and in the other order
ClassifyInOrder ==
    /\ pc = "classify"
    /\ res' = [segment |-> replace_regex(prog, arg.key),
               reordered |-> replace_list(Reordered(seg_map(prog), arg.order), 1,
                                          arg.key, arg.key),
               matched |-> MatchingRules(prog, arg.key)]
    /\ pc' = "classified"
    /\ UNCHANGED <<prog, df, dataframe, rfm, out, calls, clv, arg>>

NextOrder == ClassifyInOrder

SpecOrder == InitOrder /\ [][NextOrder]_vars

\* the label of the first rule, in dict order, whose pattern is found in
\* the key; the key itself if there is none
FirstMatch(p, key) ==
    IF MatchingRules(p, key) = {} THEN key
    ELSE seg_map(p)[CHOOSE i \in MatchingRules(p, key) :
                        \A j \in MatchingRules(p, key) : i <= j].label

\* C24: applying the ten rules one after another as regular-expression
\* replacements gives what a single first-match lookup gives; no pattern is
\* found in the text of a label, so a later rule does not change a label;
\* and the result is the same in another order of the rules.
C24_OrderIndependent ==
    /\ \A i, j \in 1..NumRules :
            ~re_search(seg_map(prog)[i].pat, seg_map(prog)[j].label)
    /\ pc = "classified" =>
            /\ res.segment = FirstMatch(prog, arg.key)
            /\ res.reordered = res.segment

\* the rule that matches 11 is the first in dict order and the last in the
\* reversed order: nine rules run before it there, and nine after it here
C24_Witness ==
    /\ pc = "classified"
    /\ arg.key = <<"1", "1">>
    /\ arg.order = ReverseOrder
    /\ res.matched = {1}
    /\ res.reordered = hibernating

(***************************************************************************)
(* flo_rfm.create_rfm called on a table and then on a second table that    *)
(* differs from the first in the customers' online spending only.          *)
(***************************************************************************)
PairProfiles == 1..5

MaxPairCust == 3

\* the online spending of the second table
OtherSpending == {1, 100}

InitMonetary ==
    /\ prog = FloFunc
    /\ pc = "prepare"
    /\ df \in {FloTable(ch, analysis_date) : ch \in SeqsUpTo(PairProfiles, 1, MaxPairCust)}
    /\ dataframe = df
    /\ rfm = <<>>
    /\ out = None
    /\ calls = <<>>
    /\ clv = None
    /\ arg = None
    /\ res = None

\* the caller keeps what the first call returned and calls the function
\* with the second table
RerunOtherMonetary ==
    /\ arg = None
    /\ pc = "done"
    /\ \E v \in [1..Len(df) -> OtherSpending] :
            df' = [i \in 1..Len(df) |->
                      [df[i] EXCEPT !.customer_value_total_ever_online = v[i]]]
    /\ dataframe' = df'
    /\ res' = out.returned
    /\ arg' = "other_monetary"
    /\ pc' = "prepare"
    /\ rfm' = <<>>
    /\ out' = None
    /\ UNCHANGED <<prog, calls, clv>>

NextMonetary ==
    \/ NextRFM
    \/ RerunOtherMonetary

SpecMonetary == InitMonetary /\ [][NextMonetary]_vars

\* both calls have returned
BothReturned == arg = "other_monetary" /\ pc = "done"

\* C25: in flo_rfm.create_rfm the segment depends on recency and frequency
\* only: when the function has returned for two tables that differ in the
\* customers' monetary values only, every customer has the same recency,
\* frequency, RF_SCORE and segment in both results; monetary and RFM_SCORE
\* are what may differ.
C25_SegmentIgnoresMonetary ==
    BothReturned =>
        /\ Len(out.returned) = Len(res)
        /\ \A n \in 1..Len(res) :
                \A c \in {"customer_id", "recency", "frequency", "RF_SCORE", "segment"} :
                    out.returned[n][c] = res[n][c]

\* the second table gave a customer another monetary score, and the same
\* segment
C25_Witness ==
    /\ BothReturned
    /\ \E n \in 1..Len(res) :
            /\ out.returned[n].RFM_SCORE # res[n].RFM_SCORE
            /\ out.returned[n].monetary # res[n].monetary
            /\ out.returned[n].segment = res[n].segment

(***************************************************************************)
(* A pipeline function called on a table and then on the same rows in the  *)
(* reverse order.                                                          *)
(***************************************************************************)
\* a further customer of flo: as many orders as customer profile 1, at
\* other dates and sums
TieFloProfile(k, c, t) ==
    CASE k = 7 -> FloRow(c, Num(t - 120 * UnitsPerDay), Num(t - 25 * UnitsPerDay),
                         1, 2, 15, 22, <<KADIN>>)
      [] OTHER -> FloProfile(k, c, t)

TieFloProfiles == {1, 2, 3, 5, 7}

TieTxProfiles == 1..6

MaxTieCust == 3

ReorderTables(p) ==
    IF IsFlo(p)
    THEN {[i \in 1..Len(ch) |-> TieFloProfile(ch[i], Len(ch) + 1 - i, analysis_date)] :
            ch \in SeqsUpTo(TieFloProfiles, 1, MaxTieCust)}
    ELSE {TxTable(ch, today_date(p)) : ch \in SeqsUpTo(TieTxProfiles, 1, MaxTieCust)}

InitReorder ==
    /\ prog \in {RfmFunc, FloFunc}
    /\ pc = "prepare"
    /\ df \in ReorderTables(prog)
    /\ dataframe = df
    /\ rfm = <<>>
    /\ out = None
    /\ calls = <<>>
    /\ clv = None
    /\ arg = [table |-> df, run |-> 1]
    /\ res = None

\* the caller keeps what the first call returned and calls the function
\* with the rows of the first table in reverse order
RerunReversed ==
    /\ arg.run = 1
    /\ pc = "done"
    /\ df' = Reversed(arg.table)
    /\ dataframe' = df'
    /\ res' = out.returned
    /\ arg' = [arg EXCEPT !.run = 2]
    /\ pc' = "prepare"
    /\ rfm' = <<>>
    /\ out' = None
    /\ UNCHANGED <<prog, calls, clv>>

NextReorder ==
    \/ NextRFM
    \/ RerunReversed

SpecReorder == InitReorder /\ [][NextReorder]_vars

\* C26: frequency ties are broken by table order: of two customers with
\* the same frequency the one earlier in the table never has the higher
\* frequency score (the table is the per-customer table the ranking is
\* applied to); so customers with identical frequency can get different
\* scores and segments, and another order of the input rows can change a
\* customer's segment.
C26_TiesByTableOrder ==
    HasColumn(rfm, "frequency_score") =>
        \A a, b \in 1..Len(rfm) :
            (a < b /\ rfm[a].frequency = rfm[b].frequency) =>
                Val(rfm[a].frequency_score) <= Val(rfm[b].frequency_score)

\* the record with customer id c in the table t
RecordOf(t, c) == t[CHOOSE n \in 1..Len(t) : t[n].customer_id = c]

\* flo_rfm.create_rfm has returned for the reversed table: two customers
\* with the same frequency have different frequency scores and segments,
\* and a customer has another segment than in the first result
C26_Witness ==
    /\ prog = FloFunc
    /\ arg.run = 2
    /\ pc = "done"
    /\ \E a, b \in 1..Len(rfm) :
            /\ rfm[a].frequency = rfm[b].frequency
            /\ rfm[a].frequency_score # rfm[b].frequency_score
            /\ rfm[a].segment # rfm[b].segment
    /\ \E n \in 1..Len(rfm) :
            RecordOf(res, rfm[n].customer_id).segment # rfm[n].segment

(***************************************************************************)
(* flo_rfm.data_prep, called with the module-level table df or with        *)
(* another table.  df has the two totals already: the statements of the    *)
(* script that add them run before the function is defined.                *)
(***************************************************************************)
DataPrep == "flo_rfm.data_prep"

PrepProfiles == {1, 2, 4}

MaxPrepCust == 2

PrepTables ==
    {FloTable(ch, analysis_date) : ch \in SeqsUpTo(PrepProfiles, 1, MaxPrepCust)}

\* arg names the object the function is called with
InitDataPrep ==
    /\ prog = DataPrep
    /\ pc = "data_prep"
    /\ \E t \in PrepTables : df = flo_prep(t)
    /\ arg \in {"df", "other"}
    /\ dataframe \in (IF arg = "df" THEN {df} ELSE PrepTables)
    /\ rfm = <<>>
    /\ out = None
    /\ calls = <<>>
    /\ clv = None
    /\ res = None

\* the columns are added to the argument in place; the return statement
\* names the module-level df
data_prep ==
    /\ pc = "data_prep"
    /\ dataframe' = flo_prep(dataframe)
    /\ df' = IF arg = "df" THEN dataframe' ELSE df
    /\ out' = [returned |-> df', object |-> "df"]
    /\ pc' = "returned"
    /\ UNCHANGED <<prog, rfm, calls, clv, arg, res>>

NextDataPrep == data_prep

SpecDataPrep == InitDataPrep /\ [][NextDataPrep]_vars

\* C27: flo_rfm.data_prep returns the table it was given as argument, with
\* order_num_total and customer_value_total added, for any argument table,
\* also one that is not the module-level df.
C27_ReturnsArgument ==
    pc = "returned" =>
        /\ out.object = arg
        /\ out.returned = dataframe
        /\ \A i \in 1..Len(out.returned) :
                {"order_num_total", "customer_value_total"} \subseteq DOMAIN out.returned[i]

(***************************************************************************)
(* rfm_analytics.py: the statements of the script, and then create_rfm on  *)
(* the table the script started from.                                      *)
(***************************************************************************)
MaxEquivCust == 3

InitEquiv ==
    /\ prog = RfmScript
    /\ pc = "prepare"
    /\ df \in {TxTable(ch, today_date(RfmScript)) : ch \in SeqsUpTo(TxProfiles, 1, MaxEquivCust)}
    /\ dataframe = df
    /\ rfm = <<>>
    /\ out = None
    /\ calls = <<>>
    /\ clv = None
    /\ arg = [table |-> df, run |-> 1]
    /\ res = None

\* df = df_.copy(); rfm_new = create_rfm(df, csv=True): the script's table
\* rfm is kept in res
CallCreateRfm ==
    /\ prog = RfmScript
    /\ pc = "done"
    /\ prog' = RfmFunc
    /\ df' = arg.table
    /\ dataframe' = df'
    /\ res' = rfm
    /\ arg' = [arg EXCEPT !.run = 2]
    /\ pc' = "prepare"
    /\ rfm' = <<>>
    /\ out' = None
    /\ UNCHANGED <<calls, clv>>

NextEquiv ==
    \/ NextRFM
    \/ CallCreateRfm

SpecEquiv == InitEquiv /\ [][NextEquiv]_vars

\* create_rfm has returned, after the script
FunctionReturned == prog = RfmFunc /\ pc = "done"

\* C28: rfm_analytics.create_rfm is equivalent to the script-level pipeline
\* it packages: on the same input table both keep the same customers and
\* give every customer the same frequency, monetary and segment label, and
\* the function does not fail where the script did not.
C28_FunctionEquivalentToScript ==
    /\ prog = RfmFunc => pc # "failed"
    /\ FunctionReturned =>
            /\ Len(out.returned) = Len(res)
            /\ \A n \in 1..Len(res) :
                    \A c \in {"customer_id", "frequency", "monetary", "segment"} :
                        out.returned[n][c] = res[n][c]

====
